---- MODULE Spec2Model ----
(***************************************************************************)
(* Model of the comic-organizer metadata resolver                          *)
(* (src/src/services/metadata.js with its collaborators utils/files.js,    *)
(* patterns/publishersPatterns.js and services/comicInfo.js).              *)
(*                                                                         *)
(* JavaScript strings are sequences of one-character strings, so that      *)
(* toLowerCase, includes, the regular expressions of the filename lexer    *)
(* and template interpolation are computed character by character.         *)
(* null and undefined are two reserved values of the string type; numeric  *)
(* fields use NullNum for null.                                            *)
(***************************************************************************)
EXTENDS Integers, Sequences, FiniteSets, TLC

(***************************************************************************)
(* JavaScript values                                                       *)
(***************************************************************************)
Null == <<"null-value">>
Undefined == <<"undefined-value">>
NullNum == -1

\* JS truthiness of a string-or-null value and of a number-or-null value
Truthy(v) == v # Null /\ v # Undefined /\ v # <<>>
TruthyNum(n) == n # NullNum /\ n # 0

\* `${v}` : template interpolation
Interp(v) ==
    IF v = Null THEN <<"n", "u", "l", "l">>
    ELSE IF v = Undefined THEN <<"u", "n", "d", "e", "f", "i", "n", "e", "d">>
    ELSE v

\* a || b on string-or-null values
OrElse(a, b) == IF Truthy(a) THEN a ELSE b

(***************************************************************************)
(* Characters                                                              *)
(***************************************************************************)
UpperChars == <<"A", "B", "C", "D", "E", "F", "G", "H", "I", "J", "K", "L", "M",
                "N", "O", "P", "Q", "R", "S", "T", "U", "V", "W", "X", "Y", "Z">>
LowerChars == <<"a", "b", "c", "d", "e", "f", "g", "h", "i", "j", "k", "l", "m",
                "n", "o", "p", "q", "r", "s", "t", "u", "v", "w", "x", "y", "z">>
DigitChars == <<"0", "1", "2", "3", "4", "5", "6", "7", "8", "9">>

IsUpper(c) == \E k \in DOMAIN UpperChars : UpperChars[k] = c
IsLower(c) == \E k \in DOMAIN LowerChars : LowerChars[k] = c
IsDigit(c) == \E k \in DOMAIN DigitChars : DigitChars[k] = c
DigitVal(c) == (CHOOSE k \in DOMAIN DigitChars : DigitChars[k] = c) - 1
\* \w of a JavaScript regular expression
IsWordChar(c) == IsUpper(c) \/ IsLower(c) \/ IsDigit(c) \/ c = "_"

LowerOfChar(c) ==
    IF IsUpper(c) THEN LowerChars[CHOOSE k \in DOMAIN UpperChars : UpperChars[k] = c] ELSE c
UpperOfChar(c) ==
    IF IsLower(c) THEN UpperChars[CHOOSE k \in DOMAIN LowerChars : LowerChars[k] = c] ELSE c

toLowerCase(s) == [i \in DOMAIN s |-> LowerOfChar(s[i])]
toUpperCase(s) == [i \in DOMAIN s |-> UpperOfChar(s[i])]

\* s.slice(a - 1, b) with 1-based inclusive bounds
Slice(s, a, b) == IF a > b THEN <<>> ELSE SubSeq(s, a, b)
\* s.includes(t)
Includes(s, t) ==
    \E p \in 1..(Len(s) - Len(t) + 1) : SubSeq(s, p, p + Len(t) - 1) = t
\* s.endsWith(t)
EndsWith(s, t) == Len(t) <= Len(s) /\ SubSeq(s, Len(s) - Len(t) + 1, Len(s)) = t

\* s.split("/")
RECURSIVE SplitSlash(_)
SplitSlash(s) ==
    IF \E p \in DOMAIN s : s[p] = "/"
    THEN LET p == CHOOSE q \in DOMAIN s : s[q] = "/" /\ \A r \in 1..(q - 1) : s[r] # "/"
         IN  <<Slice(s, 1, p - 1)>> \o SplitSlash(Slice(s, p + 1, Len(s)))
    ELSE <<s>>

(***************************************************************************)
(* utils/files.js : the filename lexer                                     *)
(***************************************************************************)
\* path.basename(p)
getFilename(p) ==
    LET segs == SplitSlash(p) IN segs[Len(segs)]

\* path.extname(p): from the last "." of the basename, "" when there is none
\* or when it is the basename's first character
extname(p) ==
    LET b == getFilename(p)
        dots == {q \in DOMAIN b : b[q] = "."}
    IN  IF dots = {} THEN <<>>
        ELSE LET d == CHOOSE q \in dots : \A r \in dots : r <= q
             IN  IF d = 1 THEN <<>> ELSE Slice(b, d, Len(b))

\* path.basename(p, ext)
basenameNoExt(p, ext) ==
    LET b == getFilename(p)
    IN  IF ext # <<>> /\ EndsWith(b, ext) /\ Len(b) > Len(ext)
        THEN Slice(b, 1, Len(b) - Len(ext))
        ELSE b

\* .replace(/\[.*?\]/g, "") and .replace(/\(.*?\)/g, "")
RECURSIVE RemoveSpans(_, _, _)
RemoveSpans(s, open, close) ==
    IF s = <<>> THEN <<>>
    ELSE IF Head(s) = open /\ \E q \in 2..Len(s) : s[q] = close
    THEN LET q == CHOOSE x \in 2..Len(s) : s[x] = close /\ \A y \in 2..(x - 1) : s[y] # close
         IN  RemoveSpans(Slice(s, q + 1, Len(s)), open, close)
    ELSE <<Head(s)>> \o RemoveSpans(Tail(s), open, close)

\* the longest prefix of digits of s, as a length
RECURSIVE DigitRun(_)
DigitRun(s) == IF s # <<>> /\ IsDigit(Head(s)) THEN 1 + DigitRun(Tail(s)) ELSE 0

\* .replace(/v\d+/gi, "") with marks = {"v", "V"}; .replace(/#\d+/g, "") with marks = {"#"}
RECURSIVE RemoveMarked(_, _)
RemoveMarked(s, marks) ==
    IF s = <<>> THEN <<>>
    ELSE IF Head(s) \in marks /\ DigitRun(Tail(s)) > 0
    THEN RemoveMarked(Slice(s, 2 + DigitRun(Tail(s)), Len(s)), marks)
    ELSE <<Head(s)>> \o RemoveMarked(Tail(s), marks)

\* .replace(/\d{4}/g, "")
RECURSIVE RemoveYears(_)
RemoveYears(s) ==
    IF s = <<>> THEN <<>>
    ELSE IF DigitRun(s) >= 4 THEN RemoveYears(Slice(s, 5, Len(s)))
    ELSE <<Head(s)>> \o RemoveYears(Tail(s))

\* the longest prefix of s made of characters of cs, as a length
RECURSIVE RunOf(_, _)
RunOf(s, cs) == IF s # <<>> /\ Head(s) \in cs THEN 1 + RunOf(Tail(s), cs) ELSE 0

\* .replace(/[-_]+/g, " ") with cs = {"-", "_"}; .replace(/\s+/g, " ") with cs = {" "}
RECURSIVE RunsToSpace(_, _)
RunsToSpace(s, cs) ==
    IF s = <<>> THEN <<>>
    ELSE IF Head(s) \in cs
    THEN <<" ">> \o RunsToSpace(Slice(s, 1 + RunOf(s, cs), Len(s)), cs)
    ELSE <<Head(s)>> \o RunsToSpace(Tail(s), cs)

\* .trim()
RECURSIVE Trim(_)
Trim(s) ==
    IF s = <<>> THEN <<>>
    ELSE IF Head(s) = " " THEN Trim(Tail(s))
    ELSE IF s[Len(s)] = " " THEN Trim(Slice(s, 1, Len(s) - 1))
    ELSE s

cleanFilenameForLookup(filename) ==
    LET c0 == basenameNoExt(filename, extname(filename))
        c1 == RemoveSpans(c0, "[", "]")
        c2 == RemoveSpans(c1, "(", ")")
        c3 == RemoveMarked(c2, {"v", "V"})
        c4 == RemoveMarked(c3, {"#"})
        c5 == RemoveYears(c4)
        c6 == RunsToSpace(c5, {"-", "_"})
        c7 == RunsToSpace(c6, {" "})
    IN  Trim(c7)

\* parseInt(digits, 10)
RECURSIVE parseInt(_)
parseInt(ds) ==
    IF ds = <<>> THEN 0 ELSE 10 * parseInt(Slice(ds, 1, Len(ds) - 1)) + DigitVal(ds[Len(ds)])

\* \b after position e of s, where s[e] is a word character
BoundaryAfter(s, e) == e = Len(s) \/ ~IsWordChar(s[e + 1])
\* \b before position b of s, where s[b] is a word character
BoundaryBefore(s, b) == b = 1 \/ ~IsWordChar(s[b - 1])

\* filename.match(/#?(\d{1,4})\b/): the leftmost match, the digits taken greedily
extractIssueNumber(filename) ==
    LET Ok(b, n) == /\ b + n - 1 <= Len(filename)
                    /\ \A k \in b..(b + n - 1) : IsDigit(filename[k])
                    /\ BoundaryAfter(filename, b + n - 1)
        starts == {b \in DOMAIN filename : \E n \in 1..4 : Ok(b, n)}
    IN  IF starts = {} THEN NullNum
        ELSE LET b == CHOOSE x \in starts : \A y \in starts : x <= y
                 n == CHOOSE x \in 1..4 : Ok(b, x) /\ \A y \in 1..4 : Ok(b, y) => y <= x
             IN  parseInt(Slice(filename, b, b + n - 1))

\* filename.match(/\b(19|20)\d{2}\b/)
extractYear(filename) ==
    LET Ok(b) == /\ b + 3 <= Len(filename)
                 /\ BoundaryBefore(filename, b)
                 /\ Slice(filename, b, b + 1) \in {<<"1", "9">>, <<"2", "0">>}
                 /\ IsDigit(filename[b + 2]) /\ IsDigit(filename[b + 3])
                 /\ BoundaryAfter(filename, b + 3)
        starts == {b \in DOMAIN filename : Ok(b)}
    IN  IF starts = {} THEN NullNum
        ELSE parseInt(Slice(filename, CHOOSE x \in starts : \A y \in starts : x <= y,
                            (CHOOSE x \in starts : \A y \in starts : x <= y) + 3))

(***************************************************************************)
(* patterns/publishersPatterns.js : the publisher table and alias table    *)
(***************************************************************************)
P_MARVEL == <<"M", "a", "r", "v", "e", "l">>
P_DC == <<"D", "C", " ", "C", "o", "m", "i", "c", "s">>
P_IMAGE == <<"I", "m", "a", "g", "e">>
P_DARK_HORSE == <<"D", "a", "r", "k", " ", "H", "o", "r", "s", "e">>
P_IDW == <<"I", "D", "W">>
P_VERTIGO == <<"V", "e", "r", "t", "i", "g", "o">>
P_BOOM == <<"B", "O", "O", "M", "!", " ", "S", "t", "u", "d", "i", "o", "s">>
P_VALIANT == <<"V", "a", "l", "i", "a", "n", "t">>
P_ONI_PRESS == <<"O", "n", "i", " ", "P", "r", "e", "s", "s">>
P_ARCHIE == <<"A", "r", "c", "h", "i", "e">>
P_TITAN == <<"T", "i", "t", "a", "n">>
P_AWA == <<"A", "W", "A">>
P_AFTERSHOCK == <<"A", "f", "t", "e", "r", "S", "h", "o", "c", "k">>
P_WILDSTORM == <<"W", "i", "l", "d", "s", "t", "o", "r", "m">>
P_MAD_CAVE == <<"M", "a", "d", " ", "C", "a", "v", "e">>
P_DYNAMITE == <<"D", "y", "n", "a", "m", "i", "t", "e", " ", "E", "n", "t", "e", "r", "t", "a", "i", "n", "m", "e", "n", "t">>

\* Object.values(PUBLISHERS), in declaration order
PUBLISHERS ==
    <<P_MARVEL, P_DC, P_IMAGE, P_DARK_HORSE, P_IDW, P_VERTIGO, P_BOOM, P_VALIANT,
      P_ONI_PRESS, P_ARCHIE, P_TITAN, P_AWA, P_AFTERSHOCK, P_WILDSTORM, P_MAD_CAVE,
      P_DYNAMITE>>

\* the entries <<key, value>> of PUBLISHER_ALIASES, in declaration order
PUBLISHER_ALIASES ==
    << <<<<"d", "a", "r", "k", " ", "h", "o", "r", "s", "e", " ", "c", "o", "m", "i", "c", "s">>, P_DARK_HORSE>>,
       <<<<"d", "a", "r", "k", " ", "h", "o", "r", "s", "e">>, P_DARK_HORSE>>,
       <<<<"d", "c", " ", "c", "o", "m", "i", "c", "s">>, P_DC>>,
       <<<<"d", "c">>, P_DC>>,
       <<<<"m", "a", "r", "v", "e", "l", " ", "c", "o", "m", "i", "c", "s">>, P_MARVEL>>,
       <<<<"m", "a", "r", "v", "e", "l">>, P_MARVEL>>,
       <<<<"i", "m", "a", "g", "e", " ", "c", "o", "m", "i", "c", "s">>, P_IMAGE>>,
       <<<<"i", "m", "a", "g", "e">>, P_IMAGE>>,
       <<<<"b", "o", "o", "m", "!", " ", "s", "t", "u", "d", "i", "o", "s">>, P_BOOM>>,
       <<<<"b", "o", "o", "m", " ", "s", "t", "u", "d", "i", "o", "s">>, P_BOOM>>,
       <<<<"b", "o", "o", "m">>, P_BOOM>>,
       <<<<"i", "d", "w", " ", "p", "u", "b", "l", "i", "s", "h", "i", "n", "g">>, P_IDW>>,
       <<<<"i", "d", "w">>, P_IDW>>,
       <<<<"m", "a", "d", " ", "c", "a", "v", "e", " ", "s", "t", "u", "d", "i", "o", "s">>, P_MAD_CAVE>>,
       <<<<"m", "a", "d", " ", "c", "a", "v", "e", " ", "c", "o", "m", "i", "c", "s">>, P_MAD_CAVE>>,
       <<<<"d", "y", "n", "a", "m", "i", "t", "e", " ", "c", "o", "m", "i", "c", "s">>, P_DYNAMITE>>,
       <<<<"d", "y", "n", "a", "m", "i", "t", "e">>, P_DYNAMITE>>,
       <<<<"o", "n", "i", " ", "p", "r", "e", "s", "s">>, P_ONI_PRESS>>,
       <<<<"w", "i", "l", "d", "s", "t", "o", "r", "m", " ", "p", "r", "o", "d", "u", "c", "t", "i", "o", "n", "s">>, P_WILDSTORM>> >>

\* PUBLISHER_ALIASES[key] (own properties of the table)
AliasLookup(key) ==
    IF \E k \in DOMAIN PUBLISHER_ALIASES : PUBLISHER_ALIASES[k][1] = key
    THEN PUBLISHER_ALIASES[CHOOSE k \in DOMAIN PUBLISHER_ALIASES : PUBLISHER_ALIASES[k][1] = key][2]
    ELSE Undefined

(***************************************************************************)
(* services/metadata.js : the publisher normalizer                         *)
(***************************************************************************)
isKnownComicPublisher(publisher) ==
    IF ~Truthy(publisher) THEN FALSE
    ELSE LET publisherLower == toLowerCase(publisher)
         IN  IF Truthy(AliasLookup(publisherLower)) THEN TRUE
             ELSE \E k \in DOMAIN PUBLISHERS : toLowerCase(PUBLISHERS[k]) = publisherLower

\* a normalizer that returns the lower-cased name of a known publisher
normalizePublisherLowered(publisher) ==
    IF ~Truthy(publisher) THEN Null
    ELSE LET publisherLower == toLowerCase(publisher)
             normalized == AliasLookup(publisherLower)
         IN  IF Truthy(normalized) THEN normalized
             ELSE IF isKnownComicPublisher(publisher) THEN publisherLower
             ELSE Null

normalizePublisher(publisher) ==
    IF ~Truthy(publisher) THEN Null
    ELSE LET publisherLower == toLowerCase(publisher)
             normalized == AliasLookup(publisherLower)
         IN  IF Truthy(normalized) THEN normalized
             ELSE IF isKnownComicPublisher(publisher) THEN publisher
             ELSE Null

(***************************************************************************)
(* services/metadata.js : the pattern catalog and the detectors            *)
(***************************************************************************)
\* Entries of the series catalog as services/metadata.js declared it inline
\* before it moved to patterns/seriesPatterns.js, in catalog order. Each
\* regular expression is case-insensitive and unanchored; it is given as the
\* set of lower-case literals it matches (/spider[-\s]?man/i matches three).
\* Every publisher of the catalog is a value of PUBLISHERS.
SERIES_PATTERNS ==
    << [pattern |-> {<<"b", "a", "t", "m", "a", "n">>}, series |-> <<"B", "a", "t", "m", "a", "n">>, publisher |-> P_DC],
       [pattern |-> {<<"s", "u", "p", "e", "r", "m", "a", "n">>}, series |-> <<"S", "u", "p", "e", "r", "m", "a", "n">>, publisher |-> P_DC],
       [pattern |-> {<<"s", "p", "i", "d", "e", "r", "m", "a", "n">>, <<"s", "p", "i", "d", "e", "r", "-", "m", "a", "n">>, <<"s", "p", "i", "d", "e", "r", " ", "m", "a", "n">>},
        series |-> <<"S", "p", "i", "d", "e", "r", "-", "M", "a", "n">>, publisher |-> P_MARVEL],
       [pattern |-> {<<"h", "u", "l", "k">>}, series |-> <<"H", "u", "l", "k">>, publisher |-> P_MARVEL],
       [pattern |-> {<<"s", "a", "n", "d", "m", "a", "n">>}, series |-> <<"S", "a", "n", "d", "m", "a", "n">>, publisher |-> P_VERTIGO] >>

\* pattern.test(filename)
PatternTest(pattern, filename) ==
    \E lit \in pattern : Includes(toLowerCase(filename), lit)

NoPatternMatch == [matched |-> FALSE, series |-> Undefined, publisher |-> Undefined]

\* detectSeriesFromPatterns returning the last entry that matches
detectSeriesFromPatternsLast(filename) ==
    LET hits == {k \in DOMAIN SERIES_PATTERNS : PatternTest(SERIES_PATTERNS[k].pattern, filename)}
    IN  IF hits = {} THEN NoPatternMatch
        ELSE LET k == CHOOSE x \in hits : \A y \in hits : x >= y
             IN  [matched |-> TRUE, series |-> SERIES_PATTERNS[k].series,
                  publisher |-> SERIES_PATTERNS[k].publisher]
detectSeriesFromPatterns(filename) ==
    LET hits == {k \in DOMAIN SERIES_PATTERNS : PatternTest(SERIES_PATTERNS[k].pattern, filename)}
    IN  IF hits = {} THEN NoPatternMatch
        ELSE LET k == CHOOSE x \in hits : \A y \in hits : x <= y
             IN  [matched |-> TRUE, series |-> SERIES_PATTERNS[k].series,
                  publisher |-> SERIES_PATTERNS[k].publisher]

detectPublisher(filename) ==
    LET upper == toUpperCase(filename)
        hits == {k \in DOMAIN PUBLISHERS : Includes(upper, toUpperCase(PUBLISHERS[k]))}
    IN  IF hits = {} THEN Null
        ELSE PUBLISHERS[CHOOSE x \in hits : \A y \in hits : x <= y]

(***************************************************************************)
(* services/metadata.js : the external lookup client                       *)
(*                                                                         *)
(* A fetch outcome is what the network gives for one request:              *)
(*   net      "error" when fetch rejects, "ok" when it resolves            *)
(*   ok       response.ok                                                  *)
(*   json     "throws" when response.json() rejects, "parsed" otherwise    *)
(*   hasItems whether the body has an items array; items is that array     *)
(* and an item is [hasVolumeInfo, title, publisher].                       *)
(***************************************************************************)
NullResult == [null |-> TRUE]

\* the body of the try block: what it returns, or that it threw
lookupTry(response) ==
    IF response.net = "error" THEN [threw |-> TRUE, value |-> NullResult]
    ELSE IF ~response.ok THEN [threw |-> FALSE, value |-> NullResult]
    ELSE IF response.json = "throws" THEN [threw |-> TRUE, value |-> NullResult]
    ELSE IF ~response.hasItems \/ Len(response.items) = 0
    THEN [threw |-> FALSE, value |-> NullResult]
    ELSE IF ~response.items[1].hasVolumeInfo THEN [threw |-> TRUE, value |-> NullResult]
    ELSE [threw |-> FALSE,
          value |-> [null |-> FALSE,
                     title |-> response.items[1].title,
                     authors |-> <<>>,
                     publisher |-> response.items[1].publisher,
                     publishedDate |-> Undefined,
                     description |-> Undefined,
                     source |-> "Google Books"]]

\* a client without the catch clause
lookupGoogleBooksNoCatch(response) == lookupTry(response)

lookupGoogleBooks(response) ==
    LET r == lookupTry(response)
    IN  IF r.threw THEN [threw |-> FALSE, value |-> NullResult] ELSE r

(***************************************************************************)
(* services/comicInfo.js : the embedded-metadata reader                    *)
(*                                                                         *)
(* The content of a file is [readable, entries]: readable is FALSE when    *)
(* opening the archive throws; an entry is [name, xml] and an xml is       *)
(* [text, wellFormed, hasRoot, info], info being the elements of the       *)
(* ComicInfo root as the XML parser returns them (Undefined or NullNum     *)
(* for a missing element).                                                 *)
(***************************************************************************)
NullInfo == [null |-> TRUE]
NoXml == [text |-> FALSE, wellFormed |-> FALSE, hasRoot |-> FALSE]

\* extractComicInfoFromCBZ / extractComicInfoFromCBR: the xml text of the
\* entry named comicinfo.xml in any casing, NoXml when absent or on a throw
extractComicInfo(content) ==
    IF ~content.readable THEN NoXml
    ELSE LET hits == {k \in DOMAIN content.entries :
                         toLowerCase(content.entries[k].name) = <<"c", "o", "m", "i", "c", "i", "n", "f", "o", ".", "x", "m", "l">>}
         IN  IF hits = {} THEN NoXml
             ELSE content.entries[CHOOSE x \in hits : \A y \in hits : x <= y].xml

parseComicInfo(xml) ==
    IF ~xml.text THEN NullInfo
    ELSE IF ~xml.wellFormed THEN NullInfo
    ELSE IF ~xml.hasRoot THEN NullInfo
    ELSE [null |-> FALSE,
          series |-> OrElse(xml.info.Series, Null),
          number |-> IF TruthyNum(xml.info.Number) THEN xml.info.Number ELSE NullNum,
          title |-> OrElse(xml.info.Title, Null),
          publisher |-> OrElse(xml.info.Publisher, Null),
          imprint |-> OrElse(xml.info.Imprint, Null),
          year |-> IF TruthyNum(xml.info.Year) THEN xml.info.Year ELSE NullNum]

readComicInfo(filePath, content) ==
    LET ext == toLowerCase(extname(filePath))
    IN  IF ext \in {<<".", "c", "b", "z">>, <<".", "c", "b", "r">>}
        THEN LET xmlContent == extractComicInfo(content)
             IN  IF ~xmlContent.text THEN NullInfo ELSE parseComicInfo(xmlContent)
        ELSE NullInfo

\* the entry named comicinfo.xml in any casing, when the archive has one
HasComicInfoEntry(content) ==
    \E k \in DOMAIN content.entries : toLowerCase(content.entries[k].name) = <<"c", "o", "m", "i", "c", "i", "n", "f", "o", ".", "x", "m", "l">>

\* await readComicInfo(filePath) were the extractors and the parser without
\* their try / catch: opening a broken archive and parsing broken XML throw
awaitReadComicInfoNoCatch(filePath, content) ==
    LET ext == toLowerCase(extname(filePath))
        opened == ext \in {<<".", "c", "b", "z">>, <<".", "c", "b", "r">>}
        xmlContent == extractComicInfo(content)
    IN  [threw |-> opened /\ (~content.readable \/ (xmlContent.text /\ ~xmlContent.wellFormed)),
         value |-> readComicInfo(filePath, content)]
\* await readComicInfo(filePath) as the resolver sees it: every throw of the
\* archive readers and of the parser is caught inside and null is returned
awaitReadComicInfo(filePath, content) ==
    [threw |-> FALSE, value |-> readComicInfo(filePath, content)]

(***************************************************************************)
(* services/metadata.js : getComicMetadata, stage by stage                 *)
(***************************************************************************)
Unsorted == <<"U", "n", "s", "o", "r", "t", "e", "d">>

\* { ...a, ...b }
Merge(a, b) ==
    [k \in (DOMAIN a) \cup (DOMAIN b) |-> IF k \in DOMAIN b THEN b[k] ELSE a[k]]

\* `${a}/${b}`
Folder(a, b) == Interp(a) \o <<"/">> \o Interp(b)

\* the record getComicMetadata starts from
BaseMetadata(filename) ==
    [originalFilename |-> filename,
     cleanedName |-> cleanFilenameForLookup(filename),
     issueNumber |-> extractIssueNumber(filename),
     year |-> extractYear(filename),
     series |-> Null,
     publisher |-> Null,
     suggestedFolder |-> Null,
     confidence |-> "low",
     source |-> "filename-analysis"]

\* an embedded stage that tests the publisher field instead of the series field
EmbeddedTerminatesOnPublisher(comicInfo) == ~comicInfo.null /\ Truthy(comicInfo.publisher)

\* the condition of the embedded stage: comicInfo && comicInfo.series
EmbeddedTerminates(comicInfo) == ~comicInfo.null /\ Truthy(comicInfo.series)

\* PRIORITY 1: the record built from ComicInfo.xml
EmbeddedRecord(metadata, comicInfo) ==
    LET normalizedPub == normalizePublisher(OrElse(comicInfo.publisher, comicInfo.imprint))
    IN  Merge(metadata,
              [series |-> comicInfo.series,
               publisher |-> OrElse(normalizedPub, Unsorted),
               issueNumber |-> IF comicInfo.number # NullNum THEN comicInfo.number
                               ELSE metadata.issueNumber,
               year |-> IF TruthyNum(comicInfo.year) THEN comicInfo.year ELSE metadata.year,
               title |-> comicInfo.title,
               suggestedFolder |-> IF Truthy(normalizedPub)
                                   THEN Folder(normalizedPub, comicInfo.series)
                                   ELSE Folder(Unsorted, comicInfo.series),
               confidence |-> "highest",
               source |-> "comicinfo-xml"])

\* the condition of the lookup stage: apiResult && apiResult.publisher
LookupTerminates(apiResult) == ~apiResult.null /\ Truthy(apiResult.publisher)

\* the fields of a lookup result, as spread into the record
ResultFields(apiResult) ==
    [title |-> apiResult.title, authors |-> apiResult.authors,
     publisher |-> apiResult.publisher, publishedDate |-> apiResult.publishedDate,
     description |-> apiResult.description, source |-> apiResult.source]

\* a lookup stage that spreads the lookup result over the stage's own fields
ApiRecordSpreadLast(metadata, apiResult) ==
    LET normalizedPub == normalizePublisher(apiResult.publisher)
    IN  IF ~Truthy(normalizedPub)
        THEN Merge(metadata,
                   [series |-> apiResult.title,
                    publisher |-> Unsorted,
                    suggestedFolder |-> Folder(Unsorted, apiResult.title),
                    confidence |-> "medium",
                    source |-> "api-lookup-non-comic-publisher"])
        ELSE Merge(Merge(metadata,
                         [series |-> apiResult.title,
                          publisher |-> normalizedPub,
                          suggestedFolder |-> Folder(normalizedPub, apiResult.title),
                          confidence |-> "high",
                          source |-> "api-lookup"]),
                   ResultFields(apiResult))

\* a lookup stage with the two branches exchanged
ApiRecordNegated(metadata, apiResult) ==
    LET normalizedPub == normalizePublisher(apiResult.publisher)
    IN  IF Truthy(normalizedPub)
        THEN Merge(metadata,
                   [series |-> apiResult.title,
                    publisher |-> Unsorted,
                    suggestedFolder |-> Folder(Unsorted, apiResult.title),
                    confidence |-> "medium",
                    source |-> "api-lookup-non-comic-publisher"])
        ELSE Merge(Merge(metadata, ResultFields(apiResult)),
                   [series |-> apiResult.title,
                    publisher |-> normalizedPub,
                    suggestedFolder |-> Folder(normalizedPub, apiResult.title),
                    confidence |-> "high",
                    source |-> "api-lookup"])

\* PRIORITY 2: the record built from a lookup result with a publisher
ApiRecord(metadata, apiResult) ==
    LET normalizedPub == normalizePublisher(apiResult.publisher)
    IN  IF ~Truthy(normalizedPub)
        THEN Merge(metadata,
                   [series |-> apiResult.title,
                    publisher |-> Unsorted,
                    suggestedFolder |-> Folder(Unsorted, apiResult.title),
                    confidence |-> "medium",
                    source |-> "api-lookup-non-comic-publisher"])
        ELSE Merge(Merge(metadata, ResultFields(apiResult)),
                   [series |-> apiResult.title,
                    publisher |-> normalizedPub,
                    suggestedFolder |-> Folder(normalizedPub, apiResult.title),
                    confidence |-> "high",
                    source |-> "api-lookup"])

\* PRIORITY 3: the record after the pattern catalog and the publisher tokens
PatternStageRecord(metadata, filename) ==
    LET cleanName == metadata.cleanedName
        patternMatch == detectSeriesFromPatterns(filename)
        detectedPublisher == detectPublisher(filename)
        normalizedPatternPub == normalizePublisher(patternMatch.publisher)
        normalizedDetectedPub == normalizePublisher(detectedPublisher)
        m1 == Merge(metadata,
                    [series |-> OrElse(patternMatch.series, Null),
                     publisher |-> OrElse(normalizedPatternPub,
                                          OrElse(normalizedDetectedPub, Null))])
    IN  IF patternMatch.matched
        THEN Merge(m1, [confidence |-> "high",
                        suggestedFolder |-> Folder(m1.publisher, m1.series),
                        source |-> "pattern-match"])
        ELSE IF Truthy(normalizedDetectedPub)
        THEN Merge(m1, [confidence |-> "medium",
                        suggestedFolder |-> Folder(normalizedDetectedPub, cleanName),
                        source |-> "publisher-detection"])
        ELSE m1

\* a pattern stage without the fallback folder
PatternRecordNoFallback(metadata, filename) == PatternStageRecord(metadata, filename)

\* a pattern stage whose fallback folder has no publisher segment
PatternRecordBare(metadata, filename) ==
    LET m2 == PatternStageRecord(metadata, filename)
    IN  IF ~Truthy(m2.suggestedFolder)
        THEN Merge(m2, [suggestedFolder |-> IF Truthy(m2.publisher)
                                            THEN Folder(m2.publisher, m2.cleanedName)
                                            ELSE m2.cleanedName])
        ELSE m2

\* ... and with the fallback: the cleaned name as series folder
PatternRecord(metadata, filename) ==
    LET m2 == PatternStageRecord(metadata, filename)
    IN  IF ~Truthy(m2.suggestedFolder)
        THEN Merge(m2, [suggestedFolder |-> IF Truthy(m2.publisher)
                                            THEN Folder(m2.publisher, m2.cleanedName)
                                            ELSE Folder(Unsorted, m2.cleanedName)])
        ELSE m2

(***************************************************************************)
(* services/seriesDetection.js : the series detector                       *)
(***************************************************************************)
\* s.split(sep) for a one-character separator
RECURSIVE Split(_, _)
Split(s, sep) ==
    IF \E p \in DOMAIN s : s[p] = sep
    THEN LET p == CHOOSE q \in DOMAIN s : s[q] = sep /\ \A r \in 1..(q - 1) : s[r] # sep
         IN  <<Slice(s, 1, p - 1)>> \o Split(Slice(s, p + 1, Len(s)), sep)
    ELSE <<s>>

\* parts.join(" ")
RECURSIVE JoinSpace(_)
JoinSpace(parts) ==
    IF parts = <<>> THEN <<>>
    ELSE IF Len(parts) = 1 THEN parts[1]
    ELSE parts[1] \o <<" ">> \o JoinSpace(Tail(parts))

\* .replace(/['']/g, "")
RemoveChars(s, cs) == SelectSeq(s, LAMBDA c : c \notin cs)
\* .replace(/[-_:,\.]/g, " ") and .replace(/[-_]/g, " "): each character of cs by a space
CharsToSpace(s, cs) == [k \in DOMAIN s |-> IF s[k] \in cs THEN " " ELSE s[k]]

normalizeForComparison(str) ==
    LET n1 == toLowerCase(str)
        n2 == RemoveChars(n1, {"'"})
        n3 == CharsToSpace(n2, {"-", "_", ":", ",", "."})
        n4 == RunsToSpace(n3, {" "})
    IN  Trim(n4)

\* filename.replace(/\.[^.]+$/, "")
RemoveExtension(filename) ==
    LET dots == {q \in DOMAIN filename : filename[q] = "."}
    IN  IF dots = {} THEN filename
        ELSE LET d == CHOOSE q \in dots : \A r \in dots : r <= q
             IN  IF d < Len(filename) THEN Slice(filename, 1, d - 1) ELSE filename

\* the number of spaces, and of digits, of s from position p on
SpacesAt(s, p) == RunOf(Slice(s, p, Len(s)), {" "})
DigitsAt(s, p) == DigitRun(Slice(s, p, Len(s)))
\* the character of s at position p, "" past the end
CharAt(s, p) == IF p \in DOMAIN s THEN s[p] ELSE ""
\* s continues at position p with the lower-case literal lit, in any casing
StartsAt(s, p, lit) ==
    p + Len(lit) - 1 <= Len(s) /\ toLowerCase(Slice(s, p, p + Len(lit) - 1)) = lit
\* \(\d{4}\) at position p
YearAt(s, p) ==
    /\ CharAt(s, p) = "("
    /\ \A k \in 1..4 : IsDigit(CharAt(s, p + k))
    /\ CharAt(s, p + 5) = ")"
\* \s*\d+ at position p
NumberAt(s, p) == DigitsAt(s, p + SpacesAt(s, p)) >= 1
\* s[1..p-1] is made of letters only: [a-z]+ under the i flag
LettersBefore(s, p) == p >= 2 /\ \A k \in 1..(p - 1) : IsLower(s[k]) \/ IsUpper(s[k])

\* U+2013 and U+2014, each one character of a name
EnDash == "en-dash"
EmDash == "em-dash"

\* The tail (?: ... ) of the k-th extraction pattern matches s at position p
TailMatches(k, s, p) ==
    LET a == SpacesAt(s, p)
        q == p + a
    IN  CASE k = 1 ->   \* \s+\d{3,}\s*\(\d{4}\)
                /\ a >= 1 /\ DigitsAt(s, q) >= 3
                /\ YearAt(s, q + DigitsAt(s, q) + SpacesAt(s, q + DigitsAt(s, q)))
          [] k = 2 ->   \* \s+[Vv]\d+
                a >= 1 /\ StartsAt(s, q, <<"v">>) /\ DigitsAt(s, q + 1) >= 1
          [] k = 3 ->   \* \s*:\s*
                CharAt(s, q) = ":"
          [] k = 4 ->   \* \s+(?:Volume|Vol\.?|Book|Part|Chapter)\s*\d*
                a >= 1 /\ \E kw \in {<<"v", "o", "l", "u", "m", "e">>, <<"v", "o", "l">>, <<"b", "o", "o", "k">>, <<"p", "a", "r", "t">>, <<"c", "h", "a", "p", "t", "e", "r">>} :
                              StartsAt(s, q, kw)
          [] k = 5 ->   \* ([a-z]+?)(?:volume|vol|book|part|issue)
                /\ LettersBefore(s, p)
                /\ \E kw \in {<<"v", "o", "l", "u", "m", "e">>, <<"v", "o", "l">>, <<"b", "o", "o", "k">>, <<"p", "a", "r", "t">>, <<"i", "s", "s", "u", "e">>} :
                      StartsAt(s, p, kw)
          [] k = 6 ->   \* \s+(?:#|Issue|No\.?)\s*\d+
                /\ a >= 1
                /\ \/ CharAt(s, q) = "#" /\ NumberAt(s, q + 1)
                   \/ StartsAt(s, q, <<"i", "s", "s", "u", "e">>) /\ NumberAt(s, q + 5)
                   \/ StartsAt(s, q, <<"n", "o">>) /\ NumberAt(s, q + 2)
                   \/ StartsAt(s, q, <<"n", "o", ".">>) /\ NumberAt(s, q + 3)
          [] k = 7 ->   \* \s*\(\d{4}\)
                YearAt(s, q)
          [] k = 8 ->   \* \s*[-{en dash}{em dash}]\s*
                CharAt(s, q) \in {"-", EnDash, EmDash}
          [] k = 9 ->   \* \s+\d{3,}
                a >= 1 /\ DigitsAt(s, q) >= 3
          [] k = 10 ->  \* (?:\s+\d{1,2})$
                a >= 1 /\ DigitsAt(s, q) \in {1, 2} /\ q + DigitsAt(s, q) - 1 = Len(s)
          [] k = 11 ->  \* ([a-z]+?)(?:\d+)
                LettersBefore(s, p) /\ IsDigit(CharAt(s, p))
          [] OTHER -> FALSE

\* name.match(pattern)[1] as the length of the captured group, 0 without a
\* match: patterns 1 to 11 are ^(.+?) or ^([a-z]+?) followed by a tail, the
\* group being the shortest that a match allows; pattern 12 is ^(\w+)\s+
GroupLength(k, s) ==
    IF k = 12
    THEN LET w == RunOf(s, {c \in {s[x] : x \in DOMAIN s} : IsWordChar(c)})
         IN  IF w >= 1 /\ CharAt(s, w + 1) = " " THEN w ELSE 0
    ELSE LET ps == {p \in 2..(Len(s) + 1) : TailMatches(k, s, p)}
         IN  IF ps = {} THEN 0 ELSE (CHOOSE p \in ps : \A r \in ps : p <= r) - 1

PatternCount == 12

extractSeriesName(filename) ==
    LET name == Trim(RunsToSpace(CharsToSpace(RemoveExtension(filename), {"-", "_"}), {" "}))
        hits == {k \in 1..PatternCount : GroupLength(k, name) > 2}
    IN  IF hits = {} THEN name
        ELSE Trim(Slice(name, 1, GroupLength(CHOOSE k \in hits : \A h \in hits : k <= h, name)))


\* norm.split(" ").filter((w) => w.length > 2), as a Set
WordSet(norm) ==
    LET parts == Split(norm, " ")
    IN  {parts[k] : k \in {q \in DOMAIN parts : Len(parts[q]) > 2}}

\* the similarity of two names as the fraction <<numerator, denominator>>
calculateSimilarity(str1, str2) ==
    LET norm1 == normalizeForComparison(str1)
        norm2 == normalizeForComparison(str2)
        words1 == WordSet(norm1)
        words2 == WordSet(norm2)
        size1 == Cardinality(words1)
        size2 == Cardinality(words2)
    IN  IF norm1 = norm2 THEN <<1, 1>>
        ELSE IF Includes(norm1, norm2) \/ Includes(norm2, norm1)
        THEN IF Len(norm1) < Len(norm2)
             THEN <<Len(norm1), Len(norm2)>>
             ELSE <<Len(norm2), Len(norm1)>>
        ELSE IF size1 = 0 \/ size2 = 0 THEN <<0, 1>>
        ELSE <<Cardinality(words1 \cap words2), IF size1 > size2 THEN size1 ELSE size2>>

\* similarity >= 0.3
AtLeastThird(similarity) == 10 * similarity[1] >= 3 * similarity[2]
\* similarity >= SIMILARITY_THRESHOLD, the threshold being 0.5
AtLeastThreshold(similarity) == 2 * similarity[1] >= similarity[2]

\* files.map(...): the candidate name of each file
FileInfo(files) ==
    [k \in DOMAIN files |->
        LET filename == getFilename(files[k])
            seriesName == extractSeriesName(filename)
        IN  [file |-> files[k], filename |-> filename, seriesName |-> seriesName,
             normalizedSeries |-> normalizeForComparison(seriesName)]]

\* the elements of a set of indices in increasing order
RECURSIVE Ascending(_)
Ascending(S) ==
    IF S = {} THEN <<>>
    ELSE LET m == CHOOSE x \in S : \A y \in S : x <= y
         IN  <<m>> \o Ascending(S \ {m})

\* matchingFiles.reduce(...): the first of the shortest candidate names
RECURSIVE ShortestName(_, _)
ShortestName(matchingFiles, shortest) ==
    IF matchingFiles = <<>> THEN shortest
    ELSE ShortestName(Tail(matchingFiles),
                      IF Len(Head(matchingFiles).seriesName) < Len(shortest)
                      THEN Head(matchingFiles).seriesName
                      ELSE shortest)

\* w.charAt(0).toUpperCase() + w.slice(1).toLowerCase()
Capitalize(w) ==
    IF w = <<>> THEN <<>>
    ELSE toUpperCase(<<w[1]>>) \o toLowerCase(Slice(w, 2, Len(w)))

\* shortestName.split(" ").map(...).join(" ")
FormatName(shortestName) ==
    LET words == Split(shortestName, " ")
    IN  JoinSpace([k \in DOMAIN words |-> Capitalize(words[k])])

\* a group is made of every seed, alone or not
MaterializesAlone(matchingFiles) == Len(matchingFiles) >= 1

\* matchingFiles.length >= 2
Materializes(matchingFiles) == Len(matchingFiles) >= 2

\* the inner loop taking also the files similar to a file it took
MatchingChained(fileInfo, i, processed) ==
    LET near(a, b) == AtLeastThreshold(calculateSimilarity(fileInfo[a].seriesName,
                                                           fileInfo[b].seriesName))
        direct == {j \in (i + 1)..Len(fileInfo) : j \notin processed /\ near(i, j)}
    IN  direct \cup {j \in (i + 1)..Len(fileInfo) :
                        j \notin processed /\ \E d \in direct : near(d, j)}
\* the inner loop without if (processed.has(j)) continue
MatchingProcessed(fileInfo, i, processed) ==
    {j \in (i + 1)..Len(fileInfo) :
        AtLeastThreshold(calculateSimilarity(fileInfo[i].seriesName, fileInfo[j].seriesName))}
\* the inner loop: the later files, not processed yet, whose candidate name is
\* similar to that of file i
Matching(fileInfo, i, processed) ==
    {j \in (i + 1)..Len(fileInfo) :
        /\ j \notin processed
        /\ AtLeastThreshold(calculateSimilarity(fileInfo[i].seriesName, fileInfo[j].seriesName))}

\* the outer loop from index i on (indices from 1), with the set processed
RECURSIVE GroupFrom(_, _, _)
GroupFrom(fileInfo, i, processed) ==
    IF i > Len(fileInfo) THEN <<>>
    ELSE IF i \in processed THEN GroupFrom(fileInfo, i + 1, processed)
    ELSE LET matching == Matching(fileInfo, i, processed)
             indices == Ascending({i} \cup matching)
             matchingFiles == [k \in DOMAIN indices |-> fileInfo[indices[k]]]
             rest == GroupFrom(fileInfo, i + 1, processed \cup {i} \cup matching)
         IN  IF Materializes(matchingFiles)
             THEN <<[seriesName |-> FormatName(ShortestName(matchingFiles,
                                                            matchingFiles[1].seriesName)),
                     files |-> [k \in DOMAIN matchingFiles |-> matchingFiles[k].file],
                     fileCount |-> Len(matchingFiles)]>> \o rest
             ELSE rest

\* groups.sort((a, b) => b.fileCount - a.fileCount): stable, most files first
RECURSIVE SortByFileCount(_)
SortByFileCount(groups) ==
    IF groups = <<>> THEN <<>>
    ELSE LET sorted == SortByFileCount(Tail(groups))
             g == Head(groups)
             before == Cardinality({k \in DOMAIN sorted : sorted[k].fileCount > g.fileCount})
         IN  Slice(sorted, 1, before) \o <<g>> \o Slice(sorted, before + 1, Len(sorted))

\* detectSeriesGroups(files): what a caller passes after files is not read
detectSeriesGroups(files) == SortByFileCount(GroupFrom(FileInfo(files), 1, {}))

\* createSeriesLookupMap(seriesGroups): file -> series name, the last group
\* that has the file; Undefined for a file of no group
createSeriesLookupMap(seriesGroups) ==
    [file \in UNION {{g.files[k] : k \in DOMAIN g.files} :
                        g \in {seriesGroups[q] : q \in DOMAIN seriesGroups}} |->
        LET having == {q \in DOMAIN seriesGroups :
                          \E k \in DOMAIN seriesGroups[q].files :
                              seriesGroups[q].files[k] = file}
        IN  seriesGroups[CHOOSE q \in having : \A r \in having : r <= q].seriesName]

\* seriesLookupMap.get(file)
MapGet(map, file) == IF file \in DOMAIN map THEN map[file] ELSE Undefined


(***************************************************************************)
(* organizers/auto.js : the automatic organizer's assignments              *)
(***************************************************************************)
\* getComicMetadata(filename, { filePath, useApi }) as one value: the record
\* of the first stage that returns, response being the network's answer
getComicMetadata(file, useApi, response) ==
    LET filename == getFilename(file.path)
        base == BaseMetadata(filename)
        comicInfo == readComicInfo(file.path, file.content)
        apiResult == lookupGoogleBooks(response).value
    IN  IF EmbeddedTerminates(comicInfo) THEN EmbeddedRecord(base, comicInfo)
        ELSE IF useApi /\ LookupTerminates(apiResult) THEN ApiRecord(base, apiResult)
        ELSE PatternRecord(base, filename)

\* getPublisherFromPattern(text): the publisher of the first pattern that
\* matches, or null
getPublisherFromPattern(text) ==
    LET hits == {k \in DOMAIN SERIES_PATTERNS : PatternTest(SERIES_PATTERNS[k].pattern, text)}
    IN  IF hits = {} THEN Null
        ELSE SERIES_PATTERNS[CHOOSE x \in hits : \A y \in hits : x <= y].publisher

\* files.indexOf(file), from 1; 0 when the file is not there
IndexOf(files, file) ==
    IF \E k \in DOMAIN files : files[k] = file
    THEN CHOOSE k \in DOMAIN files : files[k] = file /\ \A q \in 1..(k - 1) : files[q] # file
    ELSE 0

\* the truthy metadata publishers of the files of a group, in file order
GroupPublishers(group, files, metadataResults) ==
    LET at == [k \in DOMAIN group.files |-> IndexOf(files, group.files[k])]
        counted == SelectSeq([k \in DOMAIN group.files |-> k],
                             LAMBDA k : at[k] # 0 /\ Truthy(metadataResults[at[k]].publisher))
    IN  [k \in DOMAIN counted |-> metadataResults[at[counted[k]]].publisher]

\* Array.from(publishers.entries()).sort((a, b) => b[1] - a[1])[0][0]: the
\* publisher counted most often, the one met first among equals
MostCommon(publishers) ==
    LET Count(p) == Cardinality({k \in DOMAIN publishers : publishers[k] = p})
        First(p) == CHOOSE k \in DOMAIN publishers :
                        publishers[k] = p /\ \A q \in 1..(k - 1) : publishers[q] # p
        best == CHOOSE k \in DOMAIN publishers :
                    /\ First(publishers[k]) = k
                    /\ \A q \in DOMAIN publishers :
                          \/ Count(publishers[q]) < Count(publishers[k])
                          \/ /\ Count(publishers[q]) = Count(publishers[k])
                             /\ First(publishers[q]) >= k
    IN  publishers[best]

\* the entry the first pass sets for a group; Undefined when it sets none
SeriesPublisher(group, files, metadataResults) ==
    LET patternPublisher == getPublisherFromPattern(group.seriesName)
        publishers == GroupPublishers(group, files, metadataResults)
    IN  IF Truthy(patternPublisher) THEN patternPublisher
        ELSE IF publishers # <<>> THEN MostCommon(publishers)
        ELSE Undefined

\* seriesPublisherMap.get(seriesName) after the first pass: the entry of the
\* last group of that name that set one
SeriesPublisherMapGet(seriesName, files, metadataResults, seriesGroups) ==
    LET setting == {q \in DOMAIN seriesGroups :
                       /\ seriesGroups[q].seriesName = seriesName
                       /\ SeriesPublisher(seriesGroups[q], files, metadataResults) # Undefined}
    IN  IF setting = {} THEN Undefined
        ELSE SeriesPublisher(seriesGroups[CHOOSE q \in setting : \A r \in setting : r <= q],
                             files, metadataResults)

\* one element of the files.map of buildAssignments
Assignment(file, metadata, files, metadataResults, seriesLookupMap, seriesGroups) ==
    LET detectedSeries == MapGet(seriesLookupMap, file)
        filename == getFilename(file)
        publisherToUse == SeriesPublisherMapGet(detectedSeries, files, metadataResults,
                                                seriesGroups)
        singlePublisher == getPublisherFromPattern(filename)
        seriesName == OrElse(metadata.series, metadata.cleanedName)
    IN  IF Truthy(detectedSeries)
        THEN IF Truthy(publisherToUse)
             THEN [file |-> file, folder |-> Folder(publisherToUse, detectedSeries),
                   metadata |-> metadata, detectedSeries |-> detectedSeries,
                   patternPublisher |-> publisherToUse]
             ELSE IF Truthy(metadata.publisher)
             THEN [file |-> file, folder |-> Folder(metadata.publisher, detectedSeries),
                   metadata |-> metadata, detectedSeries |-> detectedSeries,
                   patternPublisher |-> Null]
             ELSE [file |-> file, folder |-> detectedSeries,
                   metadata |-> metadata, detectedSeries |-> detectedSeries,
                   patternPublisher |-> Null]
        ELSE IF Truthy(singlePublisher)
             THEN [file |-> file, folder |-> Folder(singlePublisher, seriesName),
                   metadata |-> metadata, detectedSeries |-> detectedSeries,
                   patternPublisher |-> singlePublisher]
             ELSE [file |-> file, folder |-> metadata.suggestedFolder,
                   metadata |-> metadata, detectedSeries |-> detectedSeries,
                   patternPublisher |-> singlePublisher]

buildAssignments(files, metadataResults, seriesLookupMap, seriesGroups) ==
    [index \in DOMAIN files |->
        Assignment(files[index], metadataResults[index], files, metadataResults,
                   seriesLookupMap, seriesGroups)]

\* the handling a single file gets
HandleSingle(assignment, handlingChoice) ==
    LET pathParts == SplitSlash(assignment.folder)
    IN  CASE handlingChoice = "oneshots" ->
                IF pathParts[1] # Unsorted /\ Len(pathParts) > 1
                THEN Merge(assignment, [folder |-> Folder(pathParts[1], <<"o", "n", "e", "s", "h", "o", "t", "s">>),
                                        oneshotHandling |-> TRUE])
                ELSE Merge(assignment, [folder |-> <<"o", "n", "e", "s", "h", "o", "t", "s">>, oneshotHandling |-> TRUE])
          [] handlingChoice = "as-is" ->
                IF Len(pathParts) > 1 /\ pathParts[1] # Unsorted
                THEN Merge(assignment, [folder |-> pathParts[1], simplified |-> TRUE])
                ELSE assignment
          [] OTHER -> assignment

applySingleFileHandling(assignments, seriesLookupMap, handlingChoice) ==
    [k \in DOMAIN assignments |->
        IF assignments[k].file \in DOMAIN seriesLookupMap
        THEN assignments[k]
        ELSE HandleSingle(assignments[k], handlingChoice)]

\* promptSeriesReview(seriesGroups) with the user's answers: whether to
\* rename, the indices selected (from 1) and the name typed for each
promptSeriesReview(seriesGroups, answers) ==
    IF seriesGroups = <<>> \/ ~answers.wantRename \/ answers.seriesToRename = {}
    THEN seriesGroups
    ELSE [index \in DOMAIN seriesGroups |->
             IF index \in answers.seriesToRename
             THEN Merge(seriesGroups[index], [seriesName |-> Trim(answers.newName)])
             ELSE seriesGroups[index]]


(***************************************************************************)
(* organizers/manual.js : filters, their validation and their assignments  *)
(*                                                                         *)
(* A filter is [name, pattern, filters]; name and pattern are strings or   *)
(* Undefined when the key is missing; filters is Arr(items), Missing when  *)
(* the key is missing, or NotArray for a value that is no array.           *)
(* The patterns are alternations of literals, like "marvel|x-men"; one     *)
(* with an unclosed "(" or "[" is no regular expression.                   *)
(***************************************************************************)
Arr(items) == [kind |-> "array", items |-> items]
Missing == [kind |-> "missing", items |-> <<>>]
NotArray == [kind |-> "other", items |-> <<>>]

\* new RegExp(pattern) throws
RegExpThrows(pattern) == \E k \in DOMAIN pattern : pattern[k] \in {"(", "["}

\* new RegExp(pattern, "i").test(text)
RegExpTest(pattern, text) ==
    LET alternatives == Split(pattern, "|")
    IN  \E k \in DOMAIN alternatives :
            Includes(toLowerCase(text), toLowerCase(alternatives[k]))

applyFilter(files, filter) ==
    SelectSeq(files, LAMBDA file : RegExpTest(filter.pattern, getFilename(file)))

\* filter.filters && filter.filters.length > 0
HasSubFilters(filter) == filter.filters.kind = "array" /\ filter.filters.items # <<>>

\* a path that leaves the parent out
CurrentPathFlat(parentPath, filter) == filter.name

\* parentPath ? `${parentPath}/${filter.name}` : filter.name
CurrentPath(parentPath, filter) ==
    IF parentPath # <<>> THEN Folder(parentPath, filter.name) ELSE filter.name

\* the files of a list of assignments
AssignedFiles(assignments) == {assignments[k].file : k \in DOMAIN assignments}

\* the files of matchedFiles not yet assigned, each with folder currentPath
ToFolder(matchedFiles, assigned, currentPath) ==
    LET unassigned == SelectSeq(matchedFiles, LAMBDA f : f \notin assigned)
    IN  [k \in DOMAIN unassigned |-> [file |-> unassigned[k], folder |-> currentPath]]

\* processFilters(files, filters, parentPath): the loop from filter k on,
\* with the assignments and the assigned set so far
RECURSIVE processFilters(_, _, _)
RECURSIVE ProcessFrom(_, _, _, _, _, _)
ProcessFrom(files, filters, parentPath, k, assignments, assigned) ==
    IF k > Len(filters) THEN [assignments |-> assignments, assigned |-> assigned]
    ELSE LET filter == filters[k]
             currentPath == CurrentPath(parentPath, filter)
             matchedFiles == applyFilter(files, filter)
         IN  IF HasSubFilters(filter)
             THEN LET subAssignments ==
                          processFilters(matchedFiles, filter.filters.items, currentPath)
                      withSub == assignments \o subAssignments.assignments
                      assignedSub == assigned \cup AssignedFiles(subAssignments.assignments)
                      toParent == ToFolder(matchedFiles, assignedSub, currentPath)
                  IN  ProcessFrom(files, filters, parentPath, k + 1,
                                  withSub \o toParent,
                                  assignedSub \cup AssignedFiles(toParent))
             ELSE LET direct == ToFolder(matchedFiles, assigned, currentPath)
                  IN  ProcessFrom(files, filters, parentPath, k + 1,
                                  assignments \o direct,
                                  assigned \cup AssignedFiles(direct))

processFilters(files, filters, parentPath) ==
    ProcessFrom(files, filters, parentPath, 1, <<>>, {})

\* validateFilter(filter, path): the errors it pushes, in order
RECURSIVE validateFilter(_)
RECURSIVE ValidateAll(_)
validateFilter(filter) ==
    (IF ~Truthy(filter.name) THEN <<"name">> ELSE <<>>)
    \o (IF ~Truthy(filter.pattern) THEN <<"pattern">>
        ELSE IF RegExpThrows(filter.pattern) THEN <<"regex">>
        ELSE <<>>)
    \o (IF filter.filters.kind = "array" THEN ValidateAll(filter.filters.items) ELSE <<>>)

\* for (const filter of filters) validateFilter(filter)
ValidateAll(filters) ==
    IF filters = <<>> THEN <<>>
    ELSE validateFilter(Head(filters)) \o ValidateAll(Tail(filters))

\* validateConfig(config): the list of errors
validateConfig(config) ==
    IF config.filters.kind # "array" THEN <<"filters">>
    ELSE ValidateAll(config.filters.items)

\* a loader that only checks that the file is there
loadFilterConfigUnchecked(configFile) ==
    IF ~configFile.exists
    THEN [threw |-> TRUE, error |-> <<"not found">>]
    ELSE [threw |-> FALSE, error |-> <<>>]

\* loadFilterConfig(configPath): the configuration, or the error thrown
loadFilterConfig(configFile) ==
    IF ~configFile.exists
    THEN [threw |-> TRUE, error |-> <<"not found">>]
    ELSE LET errors == validateConfig(configFile.config)
         IN  IF errors # <<>>
             THEN [threw |-> TRUE, error |-> errors]
             ELSE [threw |-> FALSE, error |-> <<>>]

(***************************************************************************)
(* The filesystem: path, fs-extra and utils/files.js moveFile               *)
(***************************************************************************)
\* path.dirname(p) of an absolute path
dirname(p) ==
    LET slashes == {q \in DOMAIN p : p[q] = "/"}
    IN  IF slashes = {} THEN <<".">>
        ELSE LET d == CHOOSE q \in slashes : \A r \in slashes : r <= q
             IN  IF d = 1 THEN <<"/">> ELSE Slice(p, 1, d - 1)

\* path.basename(filename, ext): the extension is cut when the name ends with it
basename(filename, ext) ==
    IF ext # <<>> /\ EndsWith(filename, ext) /\ Len(ext) < Len(filename)
    THEN Slice(filename, 1, Len(filename) - Len(ext))
    ELSE filename

\* the segments of a path once "", "." and ".." are resolved
RECURSIVE Resolve(_, _)
Resolve(segs, out) ==
    IF segs = <<>> THEN out
    ELSE LET s == Head(segs)
         IN  IF s = <<>> \/ s = <<".">> THEN Resolve(Tail(segs), out)
             ELSE IF s = <<".", ".">>
             THEN Resolve(Tail(segs), IF out = <<>> THEN <<>> ELSE SubSeq(out, 1, Len(out) - 1))
             ELSE Resolve(Tail(segs), Append(out, s))

RECURSIVE JoinSlash(_)
JoinSlash(segs) ==
    IF segs = <<>> THEN <<>> ELSE <<"/">> \o Head(segs) \o JoinSlash(Tail(segs))

\* path.join(a, b) for an absolute a: the two joined by "/" and normalized
pathJoin(a, b) ==
    LET segs == Resolve(SplitSlash(a \o <<"/">> \o b), <<>>)
    IN  IF segs = <<>> THEN <<"/">> ELSE JoinSlash(segs)

\* String(n) for a natural number
RECURSIVE NumberToString(_)
NumberToString(n) ==
    LET digit == DigitChars[(n % 10) + 1]
    IN  IF n < 10 THEN <<digit>> ELSE Append(NumberToString(n \div 10), digit)

\* what is on the disk: files with their content, and directories
FileEntry(path, content) == [path |-> path, kind |-> "file", content |-> content]
DirEntry(path) == [path |-> path, kind |-> "dir", content |-> <<>>]

\* fs.pathExists(p)
pathExists(disk, p) == \E e \in disk : e.path = p
EntryAt(disk, p) == CHOOSE e \in disk : e.path = p

\* the directories above p, and p itself
Lineage(p) == {Slice(p, 1, q - 1) : q \in {r \in DOMAIN p : r > 1 /\ p[r] = "/"}} \cup {p}

\* fs.ensureDir(dir): the directory and the missing ones above it are made;
\* it throws when a file is in the way
ensureDir(disk, dir) ==
    LET blocked == \E a \in Lineage(dir) : pathExists(disk, a) /\ EntryAt(disk, a).kind = "file"
    IN  [threw |-> blocked,
         disk |-> IF blocked THEN disk
                  ELSE disk \cup {DirEntry(a) : a \in {b \in Lineage(dir) : ~pathExists(disk, b)}}]

\* fs.move(src, dest, { overwrite }); fault is whether the system refuses the rename
fsMove(disk, src, dest, overwrite, fault) ==
    IF ~pathExists(disk, src)
    THEN [threw |-> TRUE, error |-> "ENOENT: no such file or directory", disk |-> disk]
    ELSE IF src = dest
    THEN [threw |-> TRUE, error |-> "Source and destination must not be the same.",
          disk |-> disk]
    ELSE LET made == ensureDir(disk, dirname(dest))
         IN  IF made.threw
             THEN [threw |-> TRUE, error |-> "ENOTDIR: not a directory", disk |-> disk]
             ELSE IF pathExists(made.disk, dest) /\ ~overwrite
             THEN [threw |-> TRUE, error |-> "dest already exists.", disk |-> made.disk]
             ELSE IF fault
             THEN [threw |-> TRUE, error |-> "EACCES: permission denied", disk |-> made.disk]
             ELSE [threw |-> FALSE, error |-> "",
                   disk |-> {e \in made.disk : e.path \notin {src, dest}}
                                \cup {[EntryAt(disk, src) EXCEPT !.path = dest]}]

\* moveFile with { overwrite: true }
moveFileOverwriting(disk, sourcePath, destinationFolder, fault) ==
    LET destinationPath == pathJoin(destinationFolder, getFilename(sourcePath))
        made == ensureDir(disk, destinationFolder)
    IN  IF made.threw
        THEN [threw |-> TRUE, error |-> "EEXIST: file already exists", disk |-> disk]
        ELSE fsMove(made.disk, sourcePath, destinationPath, TRUE, fault)
\* moveFile(sourcePath, destinationFolder) without dryRun
moveFile(disk, sourcePath, destinationFolder, fault) ==
    LET destinationPath == pathJoin(destinationFolder, getFilename(sourcePath))
        made == ensureDir(disk, destinationFolder)
    IN  IF made.threw
        THEN [threw |-> TRUE, error |-> "EEXIST: file already exists", disk |-> disk]
        ELSE fsMove(made.disk, sourcePath, destinationPath, FALSE, fault)

\* the loop over the assignments: for (const assignment of assignments) { try
\* { await moveFile(...); moved++ } catch (error) { errors.push(...) } }
RECURSIVE MoveFrom(_, _, _, _, _)
MoveFrom(assignments, outputDir, faults, k, acc) ==
    IF k > Len(assignments) THEN acc
    ELSE LET assignment == assignments[k]
             destFolder == pathJoin(outputDir, assignment.folder)
             step == moveFile(acc.disk, assignment.file, destFolder, k \in faults)
         IN  MoveFrom(assignments, outputDir, faults, k + 1,
                 IF step.threw
                 THEN [disk |-> step.disk, moved |-> acc.moved,
                       errors |-> Append(acc.errors,
                                         [file |-> assignment.file, error |-> step.error]),
                       done |-> Append(acc.done, FALSE)]
                 ELSE [disk |-> step.disk, moved |-> acc.moved + 1, errors |-> acc.errors,
                       done |-> Append(acc.done, TRUE)])

MoveLoop(assignments, outputDir, disk, faults) ==
    MoveFrom(assignments, outputDir, faults, 1,
             [disk |-> disk, moved |-> 0, errors |-> <<>>, done |-> <<>>])

(***************************************************************************)
(* The inputs: the files on disk, the options and the network              *)
(***************************************************************************)
MaxFiles == 2

Info(series, number, publisher, imprint, year, title) ==
    [Series |-> series, Number |-> number, Publisher |-> publisher,
     Imprint |-> imprint, Year |-> year, Title |-> title]
Xml(info) == [text |-> TRUE, wellFormed |-> TRUE, hasRoot |-> TRUE, info |-> info]
\* an entry the parser throws on, and one whose root is not ComicInfo
Malformed == [text |-> TRUE, wellFormed |-> FALSE, hasRoot |-> FALSE]
OtherRoot == [text |-> TRUE, wellFormed |-> TRUE, hasRoot |-> FALSE]
Page == [name |-> <<"p", "a", "g", "e", "1", ".", "j", "p", "g">>, xml |-> NoXml]
Archive(entries) == [readable |-> TRUE, entries |-> entries]
Unreadable == [readable |-> FALSE, entries |-> <<>>]

\* the comic files of the input directory, each with the content of its archive
DiskFiles ==
    { [path |-> <<"/", "c", "/", "b", "a", "t", "m", "a", "n", "0", "0", "1", ".", "c", "b", "z">>,
       content |-> Archive(<<[name |-> <<"C", "o", "m", "i", "c", "I", "n", "f", "o", ".", "x", "m", "l">>,
                              xml |-> Xml(Info(<<"B", "a", "t", "m", "a", "n">>, 1, <<"D", "C", " ", "C", "o", "m", "i", "c", "s">>, Undefined,
                                               2023, <<"T", "h", "e", " ", "D", "a", "r", "k", " ", "K", "n", "i", "g", "h", "t">>))]>>)],
      [path |-> <<"/", "c", "/", "S", "a", "n", "d", "m", "a", "n", " ", "#", "2", ".", "c", "b", "z">>,
       content |-> Archive(<<Page,
                             [name |-> <<"C", "O", "M", "I", "C", "I", "N", "F", "O", ".", "X", "M", "L">>,
                              xml |-> Xml(Info(<<"S", "a", "n", "d", "m", "a", "n">>, 2, Undefined, <<"V", "E", "R", "T", "I", "G", "O">>,
                                               NullNum, Undefined))]>>)],
      [path |-> <<"/", "c", "/", "B", "v", "S", " ", "0", "0", "3", " ", "(", "2", "0", "1", "9", ")", ".", "c", "b", "r">>,
       content |-> Archive(<<[name |-> <<"c", "o", "m", "i", "c", "i", "n", "f", "o", ".", "x", "m", "l">>,
                              xml |-> Xml(Info(<<"B", "a", "t", "m", "a", "n", "/", "S", "u", "p", "e", "r", "m", "a", "n">>, 3, <<"d", "c">>, Undefined,
                                               NullNum, Undefined))]>>)],
      [path |-> <<"/", "c", "/", "u", "n", "k", "n", "o", "w", "n", "0", "0", "1", ".", "C", "B", "Z">>,
       content |-> Archive(<<[name |-> <<"C", "o", "m", "i", "c", "I", "n", "f", "o", ".", "x", "m", "l">>,
                              xml |-> Xml(Info(<<"U", "n", "k", "n", "o", "w", "n", " ", "C", "o", "m", "i", "c">>, 1, <<"R", "a", "n", "d", "o", "m", " ", "H", "o", "u", "s", "e">>,
                                               Undefined, NullNum, Undefined))]>>)],
      [path |-> <<"/", "c", "/", "S", "o", "m", "e", " ", "B", "o", "o", "k", ".", "c", "b", "z">>,
       content |-> Archive(<<[name |-> <<"C", "o", "m", "i", "c", "I", "n", "f", "o", ".", "x", "m", "l">>,
                              xml |-> Xml(Info(Undefined, NullNum, <<"M", "a", "r", "v", "e", "l", " ", "C", "o", "m", "i", "c", "s">>,
                                               Undefined, 2021, <<"S", "o", "m", "e", " ", "B", "o", "o", "k">>))]>>)],
      [path |-> <<"/", "c", "/", "[", "M", "a", "r", "v", "e", "l", "]", ".", "c", "b", "z">>,
       content |-> Archive(<<Page>>)],
      [path |-> <<"/", "c", "/", "H", "u", "l", "k", "_", "v", "2", "_", "#", "0", "0", "3", ".", "p", "d", "f">>,
       content |-> Archive(<<[name |-> <<"C", "o", "m", "i", "c", "I", "n", "f", "o", ".", "x", "m", "l">>,
                              xml |-> Xml(Info(<<"H", "u", "l", "k">>, 3, <<"M", "a", "r", "v", "e", "l">>, Undefined,
                                               NullNum, Undefined))]>>)],
      [path |-> <<"/", "c", "/", "(", "2", "0", "2", "0", ")", ".", "e", "p", "u", "b">>,
       content |-> Unreadable],
      [path |-> <<"/", "c", "/", "I", "D", "W", " ", "S", "a", "m", "p", "l", "e", "r", " ", "2", "0", "2", "1", ".", "c", "b", "z">>,
       content |-> Unreadable],
      [path |-> <<"/", "c", "/", "S", "u", "p", "e", "r", "m", "a", "n", "-", "B", "a", "t", "m", "a", "n", " ", "0", "7", ".", "c", "b", "z">>,
       content |-> Archive(<<Page>>)],
      [path |-> <<"/", "c", "/", "Z", "e", "r", "o", " ", "H", "o", "u", "r", " ", "0", "0", "4", ".", "c", "b", "z">>,
       content |-> Archive(<<[name |-> <<"C", "o", "m", "i", "c", "I", "n", "f", "o", ".", "x", "m", "l">>,
                              xml |-> Xml(Info(<<"Z", "e", "r", "o", " ", "H", "o", "u", "r">>, 0, <<"D", "C", " ", "C", "o", "m", "i", "c", "s">>, Undefined,
                                               1994, Undefined))]>>)],
      [path |-> <<"/", "c", "/", "B", "r", "o", "k", "e", "n", " ", "0", "1", ".", "c", "b", "z">>,
       content |-> Archive(<<[name |-> <<"C", "o", "m", "i", "c", "I", "n", "f", "o", ".", "x", "m", "l">>, xml |-> Malformed]>>)],
      [path |-> <<"/", "c", "/", "O", "t", "h", "e", "r", " ", "0", "1", ".", "c", "b", "r">>,
       content |-> Archive(<<[name |-> <<"c", "o", "m", "i", "c", "i", "n", "f", "o", ".", "X", "M", "L">>, xml |-> OtherRoot]>>)] }

\* the files given to batchGetMetadata: one resolved by each stage
BatchFiles ==
    {f \in DiskFiles : f.path \in {<<"/", "c", "/", "b", "a", "t", "m", "a", "n", "0", "0", "1", ".", "c", "b", "z">>, <<"/", "c", "/", "S", "o", "m", "e", " ", "B", "o", "o", "k", ".", "c", "b", "z">>,
                                   <<"/", "c", "/", "(", "2", "0", "2", "0", ")", ".", "e", "p", "u", "b">>}}

\* the sequences of at most n of them
RECURSIVE FileSeqs(_)
FileSeqs(n) ==
    IF n = 0 THEN {<<>>}
    ELSE FileSeqs(n - 1) \cup
         {Append(s, f) : s \in {t \in FileSeqs(n - 1) : Len(t) = n - 1}, f \in BatchFiles}

\* options.useApi as the caller gives it, and whether options.onProgress is given
Options == [useApi : {"undefined", "true", "false"}, onProgress : BOOLEAN]

\* const { useApi = true } = options
UseApiDefaulted(options) == options.useApi # "false"
\* options.useApi as a condition
UseApiTruthy(options) == options.useApi = "true"

Item(title, publisher) == [hasVolumeInfo |-> TRUE, title |-> title, publisher |-> publisher]
Body(items) == [net |-> "ok", ok |-> TRUE, json |-> "parsed", hasItems |-> TRUE, items |-> items]

\* what the network can answer to one request
FetchOutcomes ==
    { [net |-> "error", ok |-> FALSE, json |-> "throws", hasItems |-> FALSE, items |-> <<>>],
      [net |-> "ok", ok |-> FALSE, json |-> "throws", hasItems |-> FALSE, items |-> <<>>],
      [net |-> "ok", ok |-> TRUE, json |-> "throws", hasItems |-> FALSE, items |-> <<>>],
      [net |-> "ok", ok |-> TRUE, json |-> "parsed", hasItems |-> FALSE, items |-> <<>>],
      Body(<<>>),
      Body(<<[hasVolumeInfo |-> FALSE, title |-> Undefined, publisher |-> Undefined]>>),
      Body(<<Item(<<"S", "p", "i", "d", "e", "r", "-", "M", "a", "n">>, <<"M", "a", "r", "v", "e", "l", " ", "C", "o", "m", "i", "c", "s">>)>>),
      Body(<<Item(<<"S", "o", "m", "e", " ", "B", "o", "o", "k">>, <<"R", "a", "n", "d", "o", "m", " ", "H", "o", "u", "s", "e">>), Item(<<"B", "a", "t", "m", "a", "n">>, <<"D", "C", " ", "C", "o", "m", "i", "c", "s">>)>>),
      Body(<<Item(<<"S", "a", "n", "d", "m", "a", "n">>, <<"v", "e", "r", "t", "i", "g", "o">>)>>),
      Body(<<Item(<<"U", "n", "t", "i", "t", "l", "e", "d">>, Undefined)>>),
      Body(<<Item(Undefined, <<"I", "m", "a", "g", "e", " ", "C", "o", "m", "i", "c", "s">>)>>) }

NoResponse == [net |-> "none"]

(***************************************************************************)
(* The state                                                               *)
(***************************************************************************)
VARIABLES
    mode,       \* "single": one call of getComicMetadata; "batch": batchGetMetadata
    files,      \* the files argument (for a single call, the one file)
    options,    \* the options argument
    hasPath,    \* whether options.filePath is given to getComicMetadata
    i,          \* the loop index of batchGetMetadata
    pc,         \* where the call is
    cur,        \* the locals of the running getComicMetadata
    metadata,   \* its metadata record
    results,    \* the results array (for a single call, the returned record)
    log,        \* the calls made so far, in order
    npc,        \* the publisher normalizer on its own: where it is
    nIn,        \* the publisher name given to it
    nOut,       \* normalizePublisher(nIn)
    nAgain,     \* normalizePublisher(nOut)
    dpc,        \* the series detector on its own: where it is
    dFiles,     \* the files given to detectSeriesGroups
    dMeta,      \* what the caller passes after files
    dGroups,    \* the groups it returned
    apc,        \* the automatic organizer: where runAutoOrganizer is
    aFiles,     \* the comic files of the source directory, with their content
    aOptions,   \* its options: useApi and dryRun as the caller gives them
    aGroups,    \* seriesGroups
    aHandling,  \* singleFileHandling
    aMeta,      \* metadataResults
    aAssign,    \* assignments
    aMoved,     \* for each assignment, whether its file was moved
    mpc,        \* the manual organizer: where runManualOrganizer is
    mConfig,    \* the configuration file at configPath
    mFiles,     \* the comic files of the source directory
    mOptions,   \* its options: dryRun and includeUnmatched
    mAssign,    \* assignments
    mMoved,     \* for each assignment, whether its file was moved
    mLog,       \* what the run has done so far, in order
    fpc,        \* the flatten organizer: where runFlattenOrganizer is
    fOptions,   \* its options: dryRun
    fAll,       \* allFiles, in the order findComicFiles gives them
    fFiles,     \* filesInSubdirs
    fSubdirs,   \* subdirs
    fIdx,       \* the position of the loop over filesInSubdirs
    fDest,      \* destPath
    fCounter,   \* counter
    fMoved,     \* moved
    fErrors,    \* errors
    fPlaced,    \* where each file moved so far was put, in order
    disk,       \* the filesystem the organizers work on
    ret         \* what the organizer returned

nvars == <<npc, nIn, nOut, nAgain>>
dvars == <<dpc, dFiles, dMeta, dGroups>>
\* the components other than the resolver and the normalizer
avars == <<apc, aFiles, aOptions, aGroups, aHandling, aMeta, aAssign, aMoved>>
mvars == <<mpc, mConfig, mFiles, mOptions, mAssign, mMoved, mLog>>
fvars == <<fpc, fOptions, fAll, fFiles, fSubdirs, fIdx, fDest, fCounter, fMoved, fErrors, fPlaced>>
ovars == <<dvars, avars, mvars, fvars, disk, ret>>
vars == <<mode, files, options, hasPath, i, pc, cur, metadata, results, log, nvars, ovars>>

IdleCur == [filePath |-> Null, comicInfo |-> NullInfo, response |-> NoResponse,
            apiResult |-> NullResult, stage |-> "none"]
NoMetadata == [source |-> "none"]

\* the resolver, the normalizer and the detector when they are not running
ResolverIdle ==
    /\ mode = "none" /\ files = <<>> /\ options = [useApi |-> "false", onProgress |-> FALSE]
    /\ hasPath = FALSE /\ i = 0 /\ pc = "idle"
    /\ cur = IdleCur /\ metadata = NoMetadata /\ results = <<>> /\ log = <<>>
NormalizerOff == npc = "off" /\ nIn = Null /\ nOut = Null /\ nAgain = Null
\* no second argument
NotPassed == [passed |-> FALSE, records |-> <<>>]
DetectorOff == dpc = "off" /\ dFiles = <<>> /\ dMeta = NotPassed /\ dGroups = <<>>
AutoOff ==
    /\ apc = "off" /\ aFiles = <<>> /\ aOptions = [useApi |-> "undefined", dryRun |-> "undefined"]
    /\ aGroups = <<>> /\ aHandling = "series-folder" /\ aMeta = <<>> /\ aAssign = <<>>
    /\ aMoved = <<>>
NoConfig == [exists |-> FALSE, config |-> [filters |-> Missing]]
ManualOff ==
    /\ mpc = "off" /\ mConfig = NoConfig /\ mFiles = <<>>
    /\ mOptions = [dryRun |-> FALSE, includeUnmatched |-> FALSE]
    /\ mAssign = <<>> /\ mMoved = <<>> /\ mLog = <<>>
FlattenOff ==
    /\ fpc = "off" /\ fOptions = [dryRun |-> FALSE] /\ fAll = <<>> /\ fFiles = <<>>
    /\ fSubdirs = <<>> /\ fIdx = 0 /\ fDest = <<>> /\ fCounter = 0 /\ fMoved = 0
    /\ fErrors = <<>> /\ fPlaced = <<>>
\* no organizer has returned
NoReturn == [returned |-> FALSE]
\* the organizers touch no file when none runs
DiskOff == disk = {} /\ ret = NoReturn
OthersOff == DetectorOff /\ AutoOff /\ ManualOff /\ FlattenOff /\ DiskOff

Init ==
    /\ mode \in {"single", "batch"}
    /\ options \in Options
    /\ IF mode = "batch"
       THEN files \in FileSeqs(MaxFiles) /\ hasPath = TRUE
       ELSE files \in {<<f>> : f \in DiskFiles} /\ hasPath \in BOOLEAN
    /\ i = 0
    /\ pc = "loop"
    /\ cur = IdleCur
    /\ metadata = NoMetadata
    /\ results = <<>>
    /\ log = <<>>
    /\ NormalizerOff
    /\ OthersOff

\* a push that puts the record at the front of the array
PushFront(array, record) == <<record>> \o array

\* results.push(metadata)
Push(array, record) == Append(array, record)

(***************************************************************************)
(* The steps                                                               *)
(***************************************************************************)
\* batchGetMetadata: the loop condition holds; getComicMetadata is entered
Enter ==
    /\ pc = "loop"
    /\ i < Len(files)
    /\ LET filePath == files[i + 1].path
           filename == getFilename(filePath)
       IN  /\ metadata' = BaseMetadata(filename)
           /\ cur' = [IdleCur EXCEPT !.filePath = IF hasPath THEN filePath ELSE Null]
           /\ log' = Append(log, [ev |-> "enter", file |-> i + 1])
    /\ pc' = "embedded"
    /\ UNCHANGED <<nvars, ovars, mode, files, options, hasPath, i, results>>

\* where getComicMetadata goes when the embedded stage did not return
AfterEmbedded == IF UseApiDefaulted(options) THEN "lookup" ELSE "pattern"

\* PRIORITY 1
EmbeddedStage ==
    /\ pc = "embedded"
    /\ IF Truthy(cur.filePath)
       THEN LET read == awaitReadComicInfo(cur.filePath, files[i + 1].content)
                comicInfo == read.value
            IN  /\ log' = Append(log, [ev |-> "readComicInfo", file |-> i + 1])
                /\ IF read.threw
                   THEN /\ cur' = [cur EXCEPT !.stage = "embedded"]
                        /\ metadata' = metadata
                        /\ pc' = "raised"
                   ELSE /\ cur' = [cur EXCEPT !.comicInfo = comicInfo, !.stage = "embedded"]
                        /\ IF EmbeddedTerminates(comicInfo)
                           THEN /\ metadata' = EmbeddedRecord(metadata, comicInfo)
                                /\ pc' = "return"
                           ELSE /\ metadata' = metadata
                                /\ pc' = AfterEmbedded
       ELSE /\ pc' = AfterEmbedded
            /\ UNCHANGED <<log, cur, metadata>>
    /\ UNCHANGED <<nvars, ovars, mode, files, options, hasPath, i, results>>

\* PRIORITY 2: one request, whatever the network answers
LookupStage ==
    /\ pc = "lookup"
    /\ \E response \in FetchOutcomes :
          LET r == lookupGoogleBooks(response)
          IN  /\ log' = Append(log, [ev |-> "fetch", file |-> i + 1,
                                      query |-> metadata.cleanedName])
              /\ IF r.threw
                 THEN /\ pc' = "raised"
                      /\ cur' = [cur EXCEPT !.response = response, !.stage = "lookup"]
                      /\ metadata' = metadata
                 ELSE /\ cur' = [cur EXCEPT !.response = response, !.stage = "lookup",
                                            !.apiResult = r.value]
                      /\ IF LookupTerminates(r.value)
                         THEN /\ metadata' = ApiRecord(metadata, r.value)
                              /\ pc' = "return"
                         ELSE /\ metadata' = metadata
                              /\ pc' = "pattern"
    /\ UNCHANGED <<nvars, ovars, mode, files, options, hasPath, i, results>>

\* PRIORITY 3
PatternStage ==
    /\ pc = "pattern"
    /\ metadata' = PatternRecord(metadata, metadata.originalFilename)
    /\ cur' = [cur EXCEPT !.stage = "pattern"]
    /\ pc' = "return"
    /\ UNCHANGED <<nvars, ovars, mode, files, options, hasPath, i, results, log>>

\* getComicMetadata returns; batchGetMetadata pushes the record and reports progress
Return ==
    /\ pc = "return"
    /\ results' = Push(results, metadata)
    /\ log' = IF mode = "batch" /\ options.onProgress
              THEN Append(Append(log, [ev |-> "return", file |-> i + 1]),
                          [ev |-> "progress", file |-> i + 1, index |-> i + 1,
                           total |-> Len(files), record |-> metadata])
              ELSE Append(log, [ev |-> "return", file |-> i + 1])
    /\ IF mode = "single"
       THEN pc' = "done" /\ i' = i
       ELSE IF UseApiTruthy(options) /\ i < Len(files) - 1
       THEN pc' = "delay" /\ i' = i
       ELSE pc' = "loop" /\ i' = i + 1
    /\ cur' = IdleCur
    /\ metadata' = NoMetadata
    /\ UNCHANGED <<nvars, ovars, mode, files, options, hasPath>>

\* the 200 ms timer between two files
Delay ==
    /\ pc = "delay"
    /\ log' = Append(log, [ev |-> "delay", file |-> i + 1])
    /\ i' = i + 1
    /\ pc' = "loop"
    /\ UNCHANGED <<nvars, ovars, mode, files, options, hasPath, cur, metadata, results>>

\* batchGetMetadata: the loop ends and the results are returned
Finish ==
    /\ pc = "loop"
    /\ i >= Len(files)
    /\ pc' = "done"
    /\ UNCHANGED <<nvars, ovars, mode, files, options, hasPath, i, cur, metadata, results, log>>

Next == Enter \/ EmbeddedStage \/ LookupStage \/ PatternStage \/ Return \/ Delay \/ Finish

Spec == Init /\ [][Next]_vars

(***************************************************************************)
(* The publisher normalizer on its own: normalizePublisher applied to a    *)
(* name, then to its own result                                            *)
(***************************************************************************)
AliasKeys == {PUBLISHER_ALIASES[k][1] : k \in DOMAIN PUBLISHER_ALIASES}
CanonicalNames == {PUBLISHERS[k] : k \in DOMAIN PUBLISHERS}

\* the names given to the normalizer: the alias keys, the canonical names,
\* both in upper case too, and names that are no comic publisher
NormalizerInputs ==
    AliasKeys \cup CanonicalNames
    \cup {toUpperCase(n) : n \in AliasKeys \cup CanonicalNames}
    \cup {toLowerCase(n) : n \in CanonicalNames}
    \cup {<<"R", "a", "n", "d", "o", "m", " ", "H", "o", "u", "s", "e">>, <<"D", "i", "f", "f", "e", "r", "e", "n", "t", " ", "P", "u", "b", "l", "i", "s", "h", "e", "r">>, <<>>, Null, Undefined}

InitNormalizer ==
    /\ ResolverIdle
    /\ OthersOff
    /\ npc = "given" /\ nIn \in NormalizerInputs /\ nOut = Null /\ nAgain = Null

Normalize ==
    /\ npc = "given"
    /\ nOut' = normalizePublisher(nIn)
    /\ npc' = "normalized"
    /\ UNCHANGED <<ovars, nIn, nAgain, mode, files, options, hasPath, i, pc, cur, metadata,
                   results, log>>

NormalizeAgain ==
    /\ npc = "normalized"
    /\ nAgain' = normalizePublisher(nOut)
    /\ npc' = "renormalized"
    /\ UNCHANGED <<ovars, nIn, nOut, mode, files, options, hasPath, i, pc, cur, metadata,
                   results, log>>

NextNormalizer == Normalize \/ NormalizeAgain

SpecNormalizer == InitNormalizer /\ [][NextNormalizer]_vars

(***************************************************************************)
(* Properties of the resolver                                              *)
(*                                                                         *)
(* While pc = "return", metadata is the record getComicMetadata returns    *)
(* for file i + 1 and cur holds what the stages read.                      *)
(***************************************************************************)
\* the embedded metadata of the k-th file, as the reader gives it
EmbeddedOf(k) == readComicInfo(files[k].path, files[k].content)
\* the k-th file was given with its path and carries embedded metadata
EmbeddedPresent(k) == hasPath /\ ~EmbeddedOf(k).null
\* ... with a non-null series field
EmbeddedSeriesPresent(k) ==
    LET embedded == EmbeddedOf(k)
    IN  hasPath /\ ~embedded.null /\ embedded.series # Null

LastSegment(folder) == SplitSlash(folder)[Len(SplitSlash(folder))]

\* C1: a file whose embedded metadata has a non-null series yields a record
\* with source comicinfo-xml, confidence highest, the embedded series, and a
\* suggestedFolder whose final path segment is the series name.
C1_EmbeddedSeriesRecord ==
    (pc = "return" /\ EmbeddedSeriesPresent(i + 1)) =>
        /\ metadata.source = "comicinfo-xml"
        /\ metadata.confidence = "highest"
        /\ metadata.series = EmbeddedOf(i + 1).series
        /\ LastSegment(metadata.suggestedFolder) = EmbeddedOf(i + 1).series

\* C2 as stated: no request is made for a file that carries embedded
\* metadata, with or without a series field.
C2_NoFetchWhenEmbeddedPresent ==
    \A e \in DOMAIN log : log[e].ev = "fetch" => ~EmbeddedPresent(log[e].file)

\* C2 amended: no request is made for a file whose embedded metadata has a
\* non-null series field, whatever useApi is.
C2_NoFetchWhenEmbeddedSeries ==
    \A e \in DOMAIN log : log[e].ev = "fetch" => ~EmbeddedSeriesPresent(log[e].file)

\* the second file of a batch returns from its embedded series with lookup
\* enabled, after a request was made for the first file
C2_Witness ==
    /\ mode = "batch" /\ options.useApi = "true"
    /\ pc = "return" /\ i = 1
    /\ EmbeddedSeriesPresent(2)
    /\ metadata.source = "comicinfo-xml"
    /\ \E e \in DOMAIN log : log[e].ev = "fetch" /\ log[e].file = 1

StagePairs ==
    [embedded |-> {<<"comicinfo-xml", "highest">>},
     lookup |-> {<<"api-lookup", "high">>, <<"api-lookup-non-comic-publisher", "medium">>},
     pattern |-> {<<"pattern-match", "high">>, <<"publisher-detection", "medium">>,
                  <<"filename-analysis", "low">>}]

\* C3: the pair (source, confidence) of a returned record is one of the six
\* pairs of the stages, and it is a pair of the stage that produced the record.
C3_SourceConfidencePairs ==
    pc = "return" =>
        /\ cur.stage \in DOMAIN StagePairs
        /\ <<metadata.source, metadata.confidence>> \in StagePairs[cur.stage]

\* the second record of a batch comes from the lookup, the first from ComicInfo.xml
C3_Witness ==
    /\ pc = "return" /\ Len(results) = 1
    /\ results[1].source = "comicinfo-xml"
    /\ <<metadata.source, metadata.confidence>> = <<"api-lookup", "high">>

\* C4: suggestedFolder is X/Y with two non-empty segments, except for a
\* filename-analysis record without publisher and series, where it is non-empty.
C4_FolderTwoSegments ==
    pc = "return" =>
        IF /\ metadata.source = "filename-analysis"
           /\ metadata.publisher = Null
           /\ metadata.series = Null
        THEN Truthy(metadata.suggestedFolder)
        ELSE /\ Len(SplitSlash(metadata.suggestedFolder)) = 2
             /\ \A k \in 1..2 : SplitSlash(metadata.suggestedFolder)[k] # <<>>

\* C5 as stated: suggestedFolder is non-null, and series is null only for a
\* filename-analysis record without publisher.
C5_SeriesNullOnlyFilenameAnalysis ==
    pc = "return" =>
        /\ metadata.suggestedFolder # Null
        /\ metadata.series = Null =>
               metadata.source = "filename-analysis" /\ metadata.publisher = Null
        /\ metadata.source # "filename-analysis" => metadata.series # Null

\* C5 amended: suggestedFolder is non-null, and series is null exactly when
\* the pattern stage matched no series pattern: in a filename-analysis
\* record (no publisher either) and in a publisher-detection record (with a
\* publisher). A comicinfo-xml or pattern-match record has a series, and a
\* lookup record has the title of the lookup result as its series.
C5_SeriesNullOnlyWithoutPatternMatch ==
    pc = "return" =>
        /\ Truthy(metadata.suggestedFolder)
        /\ metadata.series = Null <=>
               metadata.source \in {"filename-analysis", "publisher-detection"}
        /\ metadata.source = "filename-analysis" => metadata.publisher = Null
        /\ metadata.source = "publisher-detection" => Truthy(metadata.publisher)
        /\ metadata.source \in {"comicinfo-xml", "pattern-match"} => Truthy(metadata.series)
        /\ metadata.source \in {"api-lookup", "api-lookup-non-comic-publisher"} =>
               metadata.series = cur.apiResult.title

\* a publisher-detection record: a publisher, and no series
C5_Witness ==
    /\ pc = "return"
    /\ metadata.source = "publisher-detection"
    /\ metadata.series = Null
    /\ metadata.publisher = P_MARVEL

\* the lookup stage has run for the current file and its client returned
\* a result with a publisher field
LookupGavePublisher ==
    /\ cur.response # NoResponse
    /\ ~cur.apiResult.null
    /\ Truthy(cur.apiResult.publisher)

\* C6: when the embedded stage did not return and lookup is enabled, the
\* lookup stage runs; when its result has a publisher field, the call
\* returns there: with source api-lookup-non-comic-publisher, confidence
\* medium, publisher Unsorted and folder Unsorted/{title} when the publisher
\* does not normalize, and with source api-lookup, confidence high, the
\* normalized publisher and folder {normalizedPublisher}/{title} when it does.
C6_LookupStageRecord ==
    /\ (cur.stage = "embedded" /\ pc # "return" /\ options.useApi # "false") => pc = "lookup"
    /\ (pc = "pattern" /\ cur.stage # "lookup") => options.useApi = "false"
    /\ (pc \in {"lookup", "pattern", "return"} /\ LookupGavePublisher) =>
          LET title == cur.apiResult.title
              normalized == normalizePublisher(cur.apiResult.publisher)
          IN  /\ pc = "return"
              /\ metadata.series = title
              /\ IF normalized = Null
                 THEN /\ metadata.source = "api-lookup-non-comic-publisher"
                      /\ metadata.confidence = "medium"
                      /\ metadata.publisher = Unsorted
                      /\ metadata.suggestedFolder = Unsorted \o <<"/">> \o Interp(title)
                 ELSE /\ metadata.source = "api-lookup"
                      /\ metadata.confidence = "high"
                      /\ metadata.publisher = normalized
                      /\ metadata.suggestedFolder = normalized \o <<"/">> \o Interp(title)

\* "Random House" through the lookup gives Unsorted/Some Book for a file
\* whose embedded metadata has no series
C6_Witness ==
    /\ pc = "return"
    /\ EmbeddedPresent(i + 1)
    /\ cur.response # NoResponse
    /\ cur.apiResult = lookupGoogleBooks(cur.response).value
    /\ ~cur.apiResult.null
    /\ cur.apiResult.publisher = <<"R", "a", "n", "d", "o", "m", " ", "H", "o", "u", "s", "e">>
    /\ metadata.source = "api-lookup-non-comic-publisher"
    /\ metadata.suggestedFolder = <<"U", "n", "s", "o", "r", "t", "e", "d", "/", "S", "o", "m", "e", " ", "B", "o", "o", "k">>

\* the answers of the network that are no result: a rejected fetch, a
\* non-success status, a body that does not parse, a missing or empty items
\* array, an item without volumeInfo
NoResultResponse(response) ==
    \/ response.net = "error"
    \/ ~response.ok
    \/ response.json = "throws"
    \/ ~response.hasItems
    \/ response.items = <<>>
    \/ ~response.items[1].hasVolumeInfo

\* C7: the lookup client never raises; each answer that is no result gives
\* null; and after null, or a result without publisher, the call goes on to
\* the pattern stage, which returns a record of that stage.
C7_LookupNeverRaises ==
    /\ pc # "raised"
    /\ (cur.response # NoResponse /\ NoResultResponse(cur.response)) => cur.apiResult.null
    /\ (cur.response # NoResponse /\ ~LookupGavePublisher) =>
          /\ cur.stage \in {"lookup", "pattern"}
          /\ cur.stage = "lookup" => pc = "pattern"
          /\ cur.stage = "pattern" =>
                /\ pc = "return"
                /\ metadata.source \in {"pattern-match", "publisher-detection",
                                        "filename-analysis"}

\* a rejected fetch, and then a record from the pattern stage
C7_Witness ==
    /\ pc = "return"
    /\ cur.response # NoResponse
    /\ cur.response.net = "error"
    /\ cur.apiResult.null
    /\ metadata.source = "publisher-detection"

\* C8: for every alias key k with canonical value c, normalizePublisher(k) = c
\* and normalizePublisher(c) = c, and normalizing a canonical name twice
\* gives what normalizing it once gives.
C8_NormalizeAliasesAndCanonical ==
    /\ (npc \in {"normalized", "renormalized"} /\ nIn \in AliasKeys) =>
          /\ nOut = AliasLookup(nIn)
          /\ nOut \in CanonicalNames
    /\ (npc \in {"normalized", "renormalized"} /\ nIn \in CanonicalNames) => nOut = nIn
    /\ (npc = "renormalized" /\ nIn \in CanonicalNames) => nAgain = nOut
    /\ (npc = "renormalized" /\ nIn \in AliasKeys) => nAgain = nOut

\* the alias key "dc" normalized to "DC Comics", and that normalized again
C8_Witness ==
    /\ npc = "renormalized"
    /\ nIn = <<"d", "c">>
    /\ nOut = P_DC
    /\ nAgain = P_DC

\* C9: the publisher of a returned record is null, "Unsorted", or a canonical
\* name of the publisher table in its spelling and casing.
C9_PublisherCanonical ==
    pc = "return" => metadata.publisher \in {Null, Unsorted} \cup CanonicalNames

\* the log positions of the events of kind ev for file k
Events(ev, k) == {e \in DOMAIN log : log[e].ev = ev /\ log[e].file = k}

\* C10: batchGetMetadata returns one record per input path, in input order,
\* results[k].originalFilename being the basename of files[k]; and file k + 1
\* is not entered before file k has returned and its progress callback
\* (k, total, record) has been made.
C10_BatchInOrder ==
    mode = "batch" =>
        /\ pc = "done" =>
              /\ Len(results) = Len(files)
              /\ \A k \in DOMAIN files :
                    results[k].originalFilename = getFilename(files[k].path)
        /\ \A k \in DOMAIN results :
              results[k].originalFilename = getFilename(files[k].path)
        /\ \A e \in DOMAIN log :
              (log[e].ev = "enter" /\ log[e].file > 1) =>
                  LET k == log[e].file - 1
                  IN  /\ \E r \in Events("return", k) : r < e
                      /\ \A x \in 1..Len(log) : log[x].file = k => x < e
                      /\ options.onProgress =>
                            \E p \in Events("progress", k) :
                                /\ p < e
                                /\ log[p].index = k
                                /\ log[p].total = Len(files)
                                /\ log[p].record = results[k]

\* a batch of two different files has returned both records, each reported
C10_Witness ==
    /\ mode = "batch" /\ pc = "done" /\ options.onProgress
    /\ Len(files) = 2
    /\ files[1].path # files[2].path
    /\ Len(results) = 2
    /\ Events("progress", 1) # {} /\ Events("progress", 2) # {}

(***************************************************************************)
(* Properties of the batch loop                                            *)
(***************************************************************************)
\* C11: when lookup is disabled no delay occurs; when it is enabled (useApi
\* true or left to its default) a delay occurs after each file but the last.
C11_DelayIffLookupEnabled ==
    (mode = "batch" /\ pc = "done") =>
        IF UseApiDefaulted(options)
        THEN \A k \in DOMAIN files : (Events("delay", k) # {}) <=> (k < Len(files))
        ELSE \A e \in DOMAIN log : log[e].ev # "delay"

\* C12: any two lookup calls of a batch are separated by a delay, and no
\* delay follows a file for which no lookup call was made.
C12_DelayBetweenLookupsOnly ==
    mode = "batch" =>
        /\ \A e1, e2 \in DOMAIN log :
              (e1 < e2 /\ log[e1].ev = "fetch" /\ log[e2].ev = "fetch") =>
                  \E d \in DOMAIN log : e1 < d /\ d < e2 /\ log[d].ev = "delay"
        /\ \A d \in DOMAIN log :
              log[d].ev = "delay" => Events("fetch", log[d].file) # {}

\* every stage found nothing for the file being resolved: no embedded
\* series, no lookup result with a publisher, no series pattern, no
\* publisher token in the name
NothingFound ==
    /\ cur.stage = "pattern"
    /\ ~detectSeriesFromPatterns(metadata.originalFilename).matched
    /\ detectPublisher(metadata.originalFilename) = Null

\* the steps left to the end of the run: seven per file not yet done, less
\* those taken for the current file
StepsLeft ==
    7 * (Len(files) - i) +
    CASE pc = "loop" -> 6 [] pc = "embedded" -> 5 [] pc = "lookup" -> 4
      [] pc = "pattern" -> 3 [] pc = "return" -> 2 [] pc = "delay" -> 1
      [] OTHER -> 0

MaxDetect == 3

\* the file paths given to the detector
DetectFiles ==
    {<<"/", "p", "a", "t", "h", "/", "B", "a", "t", "m", "a", "n", " ", "#", "0", "0", "1", ".", "c", "b", "z">>, <<"/", "p", "a", "t", "h", "/", "B", "a", "t", "m", "a", "n", " ", "#", "0", "0", "2", ".", "c", "b", "z">>,
     <<"/", "p", "a", "t", "h", "/", "B", "a", "t", "m", "a", "n", " ", "B", "e", "y", "o", "n", "d", " ", "#", "0", "0", "1", ".", "c", "b", "z">>,
     <<"/", "p", "a", "t", "h", "/", "S", "p", "i", "d", "e", "r", "-", "M", "a", "n", " ", "#", "0", "0", "1", ".", "c", "b", "z">>, <<"/", "p", "a", "t", "h", "/", "S", "p", "i", "d", "e", "r", " ", "M", "a", "n", " ", "#", "0", "0", "2", ".", "c", "b", "z">>}

\* the lists of at most n different paths
RECURSIVE PathSeqs(_)
PathSeqs(n) ==
    IF n = 0 THEN {<<>>}
    ELSE PathSeqs(n - 1) \cup
         {Append(s, f) : s \in {t \in PathSeqs(n - 1) : Len(t) = n - 1}, f \in DetectFiles}

\* no path twice
Distinct(s) == \A a, b \in DOMAIN s : a # b => s[a] # s[b]

\* the series the resolver reports for a path: from the embedded metadata of
\* the files ("comicinfo"), as the file name has it ("filename"), or none
ResolverSeries(world, path) ==
    CASE world = "comicinfo" ->
            (CASE path \in {<<"/", "p", "a", "t", "h", "/", "B", "a", "t", "m", "a", "n", " ", "#", "0", "0", "1", ".", "c", "b", "z">>, <<"/", "p", "a", "t", "h", "/", "B", "a", "t", "m", "a", "n", " ", "#", "0", "0", "2", ".", "c", "b", "z">>}
                      -> <<"S", "u", "p", "e", "r", "m", "a", "n">>
               [] path \in {<<"/", "p", "a", "t", "h", "/", "S", "p", "i", "d", "e", "r", "-", "M", "a", "n", " ", "#", "0", "0", "1", ".", "c", "b", "z">>, <<"/", "p", "a", "t", "h", "/", "S", "p", "i", "d", "e", "r", " ", "M", "a", "n", " ", "#", "0", "0", "2", ".", "c", "b", "z">>}
                      -> <<"T", "h", "e", " ", "A", "m", "a", "z", "i", "n", "g", " ", "S", "p", "i", "d", "e", "r", "-", "M", "a", "n">>
               [] OTHER -> Null)
      [] world = "filename" -> extractSeriesName(getFilename(path))
      [] OTHER -> Null

ResolverWorlds == {"comicinfo", "filename", "none"}

\* the metadataResults a caller passes: one record per file
MetadataResults(world, paths) ==
    [passed |-> TRUE,
     records |-> [k \in DOMAIN paths |-> [series |-> ResolverSeries(world, paths[k])]]]

InitDetect ==
    /\ ResolverIdle
    /\ NormalizerOff
    /\ AutoOff
    /\ ManualOff
    /\ FlattenOff
    /\ DiskOff
    /\ dpc = "called"
    /\ dFiles \in {s \in PathSeqs(MaxDetect) : Distinct(s)}
    /\ dMeta \in {NotPassed} \cup {MetadataResults(w, dFiles) : w \in ResolverWorlds}
    /\ dGroups = <<>>

\* detectSeriesGroups(files) or detectSeriesGroups(files, metadataResults)
Detect ==
    /\ dpc = "called"
    /\ dGroups' = detectSeriesGroups(dFiles)
    /\ dpc' = "detected"
    /\ UNCHANGED <<dFiles, dMeta, nvars, avars, mvars, fvars, disk, ret, mode, files, options, hasPath, i, pc, cur,
                   metadata, results, log>>

NextDetect == Detect

SpecDetect == InitDetect /\ [][NextDetect]_vars

\* the candidate names of files a and b of the list are similar
Similar(a, b) ==
    AtLeastThreshold(calculateSimilarity(extractSeriesName(getFilename(dFiles[a])),
                                         extractSeriesName(getFilename(dFiles[b]))))

\* the files of a group, as a set
Members(g) == {g.files[k] : k \in DOMAIN g.files}

\* C14: every group returned by detectSeriesGroups has at least 2 member
\* files and fileCount equal to its number of members; a file whose candidate
\* name is similar to that of no other file is in no group, and a list of
\* pairwise dissimilar files gives no group.
C14_GroupsHaveTwoMembers ==
    dpc = "detected" =>
        /\ \A q \in DOMAIN dGroups :
              /\ Len(dGroups[q].files) >= 2
              /\ Cardinality(Members(dGroups[q])) >= 2
              /\ dGroups[q].fileCount = Len(dGroups[q].files)
        /\ \A a \in DOMAIN dFiles :
              (\A b \in DOMAIN dFiles \ {a} : ~Similar(a, b)) =>
                  \A q \in DOMAIN dGroups : dFiles[a] \notin Members(dGroups[q])
        /\ (\A a, b \in DOMAIN dFiles : a # b => ~Similar(a, b)) => dGroups = <<>>

\* two Batman issues around a Spider-Man issue: one group of the two, the
\* Spider-Man issue in none
C14_Witness ==
    /\ dpc = "detected"
    /\ dFiles = <<<<"/", "p", "a", "t", "h", "/", "B", "a", "t", "m", "a", "n", " ", "#", "0", "0", "1", ".", "c", "b", "z">>, <<"/", "p", "a", "t", "h", "/", "S", "p", "i", "d", "e", "r", "-", "M", "a", "n", " ", "#", "0", "0", "1", ".", "c", "b", "z">>,
                  <<"/", "p", "a", "t", "h", "/", "B", "a", "t", "m", "a", "n", " ", "#", "0", "0", "2", ".", "c", "b", "z">>>>
    /\ Len(dGroups) = 1
    /\ dGroups[1].seriesName = <<"B", "a", "t", "m", "a", "n">>
    /\ dGroups[1].files = <<<<"/", "p", "a", "t", "h", "/", "B", "a", "t", "m", "a", "n", " ", "#", "0", "0", "1", ".", "c", "b", "z">>, <<"/", "p", "a", "t", "h", "/", "B", "a", "t", "m", "a", "n", " ", "#", "0", "0", "2", ".", "c", "b", "z">>>>
    /\ dGroups[1].fileCount = 2

\* C15: when detectSeriesGroups is given the resolver's records, the files
\* that share one non-null resolver series are together in one group named
\* exactly that series, whatever their file names say.
C15_ResolverSeriesNamesGroup ==
    (dpc = "detected" /\ dMeta.passed) =>
        \A a \in DOMAIN dFiles :
            LET s == dMeta.records[a].series
                sharing == {b \in DOMAIN dFiles : dMeta.records[b].series = s}
            IN  (s # Null /\ Cardinality(sharing) >= 2) =>
                    \E q \in DOMAIN dGroups :
                        /\ dGroups[q].seriesName = s
                        /\ Members(dGroups[q]) = {dFiles[b] : b \in sharing}

(***************************************************************************)
(* The automatic organizer: runAutoOrganizer from the scan to the moves    *)
(***************************************************************************)
NoEmbedded == Archive(<<Page>>)
Embedded(series, publisher) ==
    Archive(<<[name |-> <<"C", "o", "m", "i", "c", "I", "n", "f", "o", ".", "x", "m", "l">>,
               xml |-> Xml(Info(series, NullNum, publisher, Undefined, NullNum, Undefined))]>>)

\* the source directories: what findComicFiles returns for each
AutoDirs ==
    { <<>>,
      <<[path |-> <<"/", "c", "/", "Z", "o", "t", " ", "7", ".", "c", "b", "z">>, content |-> NoEmbedded]>>,
      <<[path |-> <<"/", "c", "/", "B", "a", "t", "m", "a", "n", " ", "#", "0", "0", "1", ".", "c", "b", "z">>, content |-> NoEmbedded],
        [path |-> <<"/", "c", "/", "B", "a", "t", "m", "a", "n", " ", "#", "0", "0", "2", ".", "c", "b", "z">>, content |-> NoEmbedded]>>,
      <<[path |-> <<"/", "c", "/", "T", "a", "l", "e", "s", ":", " ", "B", "a", "t", "m", "a", "n", " ", "1", ".", "c", "b", "z">>, content |-> NoEmbedded],
        [path |-> <<"/", "c", "/", "T", "a", "l", "e", "s", ":", " ", "B", "a", "t", "m", "a", "n", " ", "2", ".", "c", "b", "z">>, content |-> NoEmbedded]>>,
      <<[path |-> <<"/", "c", "/", "A", "S", "M", " ", "0", "0", "1", ".", "c", "b", "z">>,
         content |-> Embedded(<<"T", "h", "e", " ", "A", "m", "a", "z", "i", "n", "g", " ", "S", "p", "i", "d", "e", "r", "-", "M", "a", "n">>, <<"M", "a", "r", "v", "e", "l">>)],
        [path |-> <<"/", "c", "/", "A", "S", "M", " ", "0", "0", "2", ".", "c", "b", "z">>,
         content |-> Embedded(<<"T", "h", "e", " ", "A", "m", "a", "z", "i", "n", "g", " ", "S", "p", "i", "d", "e", "r", "-", "M", "a", "n">>, <<"M", "a", "r", "v", "e", "l">>)]>>,
      <<[path |-> <<"/", "c", "/", "S", "u", "p", "e", "r", "m", "a", "n", " ", "#", "0", "0", "1", ".", "c", "b", "z">>, content |-> NoEmbedded],
        [path |-> <<"/", "c", "/", "(", "2", "0", "2", "0", ")", ".", "e", "p", "u", "b">>, content |-> Unreadable]>>,
      <<[path |-> <<"/", "c", "/", "S", "a", "g", "a", " ", "0", "1", ".", "c", "b", "z">>, content |-> Embedded(<<"S", "a", "g", "a">>, <<"I", "m", "a", "g", "e", " ", "C", "o", "m", "i", "c", "s">>)],
        [path |-> <<"/", "c", "/", "S", "a", "g", "a", " ", "0", "2", ".", "c", "b", "z">>, content |-> NoEmbedded],
        [path |-> <<"/", "c", "/", "H", "u", "l", "k", "_", "v", "2", "_", "#", "0", "0", "3", ".", "p", "d", "f">>, content |-> Embedded(<<"H", "u", "l", "k">>, <<"M", "a", "r", "v", "e", "l">>)]>> }

AutoOptions == [useApi : {"undefined", "true", "false"}, dryRun : {"undefined", "true", "false"}]

\* const { dryRun = false, useApi = true } = options
AutoUseApi == aOptions.useApi # "false"
AutoDryRun == aOptions.dryRun = "true"

\* the answers a user gives to promptSeriesReview
ReviewAnswers ==
    { [wantRename |-> FALSE, seriesToRename |-> {}, newName |-> <<>>],
      [wantRename |-> TRUE, seriesToRename |-> {}, newName |-> <<>>],
      [wantRename |-> TRUE, seriesToRename |-> {1}, newName |-> <<" ", "D", "a", "r", "k", " ", "K", "n", "i", "g", "h", "t", " ">>] }

HandlingChoices == {"series-folder", "oneshots", "as-is"}

\* the paths of the files found
AutoPaths == [k \in DOMAIN aFiles |-> aFiles[k].path]

\* the directories of the run
sourceDir == <<"/", "c">>
outputDir == <<"/", "o", "u", "t">>

\* a file that is in the output directory before the run
Old(path) == FileEntry(path, <<"o", "l", "d">>)

\* what the output directory can hold before an automatic run
AutoOutputs ==
    { {},
      {DirEntry(outputDir)},
      {DirEntry(outputDir), DirEntry(<<"/", "o", "u", "t", "/", "D", "C", " ", "C", "o", "m", "i", "c", "s">>), DirEntry(<<"/", "o", "u", "t", "/", "D", "C", " ", "C", "o", "m", "i", "c", "s", "/", "B", "a", "t", "m", "a", "n">>),
       Old(<<"/", "o", "u", "t", "/", "D", "C", " ", "C", "o", "m", "i", "c", "s", "/", "B", "a", "t", "m", "a", "n", "/", "B", "a", "t", "m", "a", "n", " ", "#", "0", "0", "1", ".", "c", "b", "z">>)} }

\* the source directory with the comic files found in it
SourceDisk(paths) ==
    {DirEntry(sourceDir)} \cup {FileEntry(paths[k], paths[k]) : k \in DOMAIN paths}

\* the moves the system can refuse during a run
Faults == {{}, {1}}

\* what an organizer returns; wouldMove is NullNum when the result has none
Result(processed, moved, wouldMove, errors) ==
    [returned |-> TRUE, processed |-> processed, moved |-> moved, wouldMove |-> wouldMove,
     errors |-> errors]

InitAuto ==
    /\ ResolverIdle
    /\ NormalizerOff
    /\ DetectorOff
    /\ ManualOff
    /\ FlattenOff
    /\ apc = "scan"
    /\ aFiles \in AutoDirs
    /\ aOptions \in AutoOptions
    /\ aGroups = <<>> /\ aHandling = "series-folder" /\ aMeta = <<>> /\ aAssign = <<>>
    /\ aMoved = <<>>
    /\ \E before \in AutoOutputs : disk = SourceDisk(AutoPaths) \cup before
    /\ ret = NoReturn

AutoOthers == <<nvars, dvars, mvars, fvars, mode, files, options, hasPath, i, pc, cur, metadata, results, log>>

\* no comic file: the run returns at once
AutoNothingFound ==
    /\ apc = "scan"
    /\ aFiles = <<>>
    /\ apc' = "done"
    /\ ret' = Result(0, 0, NullNum, <<>>)
    /\ UNCHANGED <<aFiles, aOptions, aGroups, aHandling, aMeta, aAssign, aMoved, disk, AutoOthers>>

\* the series are detected from the file names, before any metadata
AutoDetect ==
    /\ apc = "scan"
    /\ aFiles # <<>>
    /\ aGroups' = detectSeriesGroups(AutoPaths)
    /\ apc' = IF aGroups' # <<>> THEN "review" ELSE "handling"
    /\ UNCHANGED <<aFiles, aOptions, aHandling, aMeta, aAssign, aMoved, disk, ret, AutoOthers>>

\* the user reviews the series and may rename them
AutoReview ==
    /\ apc = "review"
    /\ \E answers \in ReviewAnswers : aGroups' = promptSeriesReview(aGroups, answers)
    /\ apc' = "handling"
    /\ UNCHANGED <<aFiles, aOptions, aHandling, aMeta, aAssign, aMoved, disk, ret, AutoOthers>>

\* the files that are in no series
SingleFiles(seriesLookupMap) ==
    {k \in DOMAIN aFiles : aFiles[k].path \notin DOMAIN seriesLookupMap}

\* the user is asked how to handle single files when there are some
AutoHandling ==
    /\ apc = "handling"
    /\ IF SingleFiles(createSeriesLookupMap(aGroups)) # {}
       THEN aHandling' \in HandlingChoices
       ELSE aHandling' = "series-folder"
    /\ apc' = "analyze"
    /\ UNCHANGED <<aFiles, aOptions, aGroups, aMeta, aAssign, aMoved, disk, ret, AutoOthers>>

\* the answers the network can give for file k: a request is made only when
\* the embedded stage does not return and lookup is enabled
Requests(k) ==
    IF AutoUseApi /\ ~EmbeddedTerminates(readComicInfo(aFiles[k].path, aFiles[k].content))
    THEN FetchOutcomes
    ELSE {NoResponse}

\* the records getComicMetadata can return for file k
Records(k) == {getComicMetadata(aFiles[k], AutoUseApi, response) : response \in Requests(k)}

\* the results arrays batchGetMetadata can return for the first n files
RECURSIVE ResultSeqs(_)
ResultSeqs(n) ==
    IF n = 0 THEN {<<>>}
    ELSE {Append(s, m) : s \in ResultSeqs(n - 1), m \in Records(n)}

\* batchGetMetadata(files, { useApi, onProgress }): one record per file,
\* whatever the network answers for each
AutoAnalyze ==
    /\ apc = "analyze"
    /\ aMeta' \in ResultSeqs(Len(aFiles))
    /\ apc' = "assign"
    /\ UNCHANGED <<aFiles, aOptions, aGroups, aHandling, aAssign, aMoved, disk, ret, AutoOthers>>

\* buildAssignments, then applySingleFileHandling; a preview ends here
AutoAssign ==
    /\ apc = "assign"
    /\ LET seriesLookupMap == createSeriesLookupMap(aGroups)
       IN  aAssign' = applySingleFileHandling(
                          buildAssignments(AutoPaths, aMeta, seriesLookupMap, aGroups),
                          seriesLookupMap, aHandling)
    /\ apc' = IF AutoDryRun THEN "done" ELSE "move"
    /\ ret' = IF AutoDryRun THEN Result(Len(aFiles), 0, Len(aFiles), <<>>) ELSE ret
    /\ UNCHANGED <<aFiles, aOptions, aGroups, aHandling, aMeta, aMoved, disk, AutoOthers>>

\* every assignment's file is moved; a move that fails is recorded and the
\* others go on
AutoMove ==
    /\ apc = "move"
    /\ \E faults \in Faults :
          LET out == MoveLoop(aAssign, outputDir, disk, faults)
          IN  /\ disk' = out.disk
              /\ aMoved' = out.done
              /\ ret' = Result(Len(aFiles), out.moved, NullNum, out.errors)
    /\ apc' = "done"
    /\ UNCHANGED <<aFiles, aOptions, aGroups, aHandling, aMeta, aAssign, AutoOthers>>

NextAuto ==
    AutoNothingFound \/ AutoDetect \/ AutoReview \/ AutoHandling \/ AutoAnalyze
        \/ AutoAssign \/ AutoMove

SpecAuto == InitAuto /\ [][NextAuto]_vars

(* Properties of the automatic organizer's assignments *)
\* the assignments have been built
Assigned == apc \in {"move", "done"} /\ aAssign # <<>>

\* the first and the last segment of a folder
PublisherSegment(folder) == SplitSlash(folder)[1]
SeriesSegment(folder) == LET pathParts == SplitSlash(folder) IN pathParts[Len(pathParts)]

\* C16: when the series detector and the metadata resolver both supply a
\* series name for a file, the series segment of the file's final folder is
\* the resolver's series name.
C16_ResolverSeriesInFolder ==
    Assigned =>
        \A k \in DOMAIN aAssign :
            (Truthy(aAssign[k].detectedSeries) /\ Truthy(aMeta[k].series)) =>
                SeriesSegment(aAssign[k].folder) = aMeta[k].series

\* C17: whenever a file's name matches a static series pattern, the publisher
\* of the file's final folder is that pattern's publisher, whatever publisher
\* the lookup returned for the file.
C17_PatternPublisherWins ==
    Assigned =>
        \A k \in DOMAIN aAssign :
            LET patternPublisher == getPublisherFromPattern(getFilename(aFiles[k].path))
            IN  Truthy(patternPublisher) =>
                    PublisherSegment(aAssign[k].folder) = patternPublisher

(***************************************************************************)
(* The manual organizer: runManualOrganizer from the configuration to the  *)
(* moves                                                                   *)
(***************************************************************************)
MaxManual == 2

Leaf(name, pattern) == [name |-> name, pattern |-> pattern, filters |-> Missing]
Node(name, pattern, subs) == [name |-> name, pattern |-> pattern, filters |-> Arr(subs)]

\* the sub-filters and the lists of one or two of them
SubFilters == {Leaf(<<"B", "a", "t">>, <<"b", "a", "t">>), Leaf(<<"S", "p", "i", "d", "e", "r", "-", "M", "a", "n">>, <<"s", "p", "i", "d", "e", "r", "-", "m", "a", "n", "|", "s", "p", "i", "d", "e", "r", " ", "m", "a", "n">>)}
SubLists ==
    {<<a>> : a \in SubFilters}
    \cup {p \in SubFilters \X SubFilters : p[1] # p[2]}

\* the filters of the top level: leaves, and parents with sub-filters
TopFilters ==
    {Leaf(<<"D", "C">>, <<"d", "c", "|", "b", "a", "t", "m", "a", "n">>), Leaf(<<"M", "a", "r", "v", "e", "l">>, <<"m", "a", "r", "v", "e", "l", "|", "s", "p", "i", "d", "e", "r", "-", "m", "a", "n">>),
     Node(<<"B", "a", "t", "s">>, <<"b", "a", "t">>, <<Leaf(<<"B", "a", "t">>, <<"b", "a", "t">>)>>)}
    \cup {Node(<<"H", "e", "r", "o", "e", "s">>, <<"m", "a", "n">>, subs) : subs \in SubLists}

\* configuration files that load: one or two top-level filters of different
\* names, and one three levels deep
ValidConfigs ==
    {[exists |-> TRUE, config |-> [filters |-> Arr(<<a>>)]] : a \in TopFilters}
    \cup {[exists |-> TRUE, config |-> [filters |-> Arr(p)]] :
              p \in {q \in TopFilters \X TopFilters : q[1].name # q[2].name}}
    \cup {[exists |-> TRUE,
           config |-> [filters |-> Arr(<<Node(<<"C", "o", "m", "i", "c", "s">>, <<"c", "b", "z">>,
                                              <<Node(<<"H", "e", "r", "o", "e", "s">>, <<"m", "a", "n">>,
                                                     <<Leaf(<<"B", "a", "t">>, <<"b", "a", "t">>)>>)>>)>>)]]}

\* configuration files with an error: no file, no filters array, a filter
\* without name or without pattern, a pattern that is no regular
\* expression, at the top, one level down and two levels down
InvalidConfigs ==
    {NoConfig,
     [exists |-> TRUE, config |-> [filters |-> Missing]],
     [exists |-> TRUE, config |-> [filters |-> NotArray]],
     [exists |-> TRUE, config |-> [filters |-> Arr(<<Leaf(Undefined, <<"b", "a", "t", "m", "a", "n">>)>>)]],
     [exists |-> TRUE, config |-> [filters |-> Arr(<<Leaf(<<"D", "C">>, Undefined)>>)]],
     [exists |-> TRUE, config |-> [filters |-> Arr(<<Leaf(<<"D", "C">>, <<>>)>>)]],
     [exists |-> TRUE, config |-> [filters |-> Arr(<<Leaf(<<"D", "C">>, <<"b", "a", "t", "(", "m", "a", "n">>)>>)]],
     [exists |-> TRUE,
      config |-> [filters |-> Arr(<<Leaf(<<"D", "C">>, <<"b", "a", "t", "m", "a", "n">>),
                                    Node(<<"H", "e", "r", "o", "e", "s">>, <<"m", "a", "n">>,
                                         <<Leaf(<<"B", "a", "t">>, <<"[", "b", "a", "t">>)>>)>>)]],
     [exists |-> TRUE,
      config |-> [filters |-> Arr(<<Node(<<"C", "o", "m", "i", "c", "s">>, <<"c", "b", "z">>,
                                         <<Node(<<"H", "e", "r", "o", "e", "s">>, <<"m", "a", "n">>,
                                                <<Leaf(Undefined, <<"b", "a", "t">>)>>)>>)>>)]],
     [exists |-> TRUE,
      config |-> [filters |-> Arr(<<Node(<<"C", "o", "m", "i", "c", "s">>, <<"c", "b", "z">>,
                                         <<Node(<<"H", "e", "r", "o", "e", "s">>, <<"m", "a", "n">>,
                                                <<Leaf(<<"B", "a", "t">>, <<"(", "b", "a", "t">>)>>)>>)>>)]]}

\* the comic files a source directory can hold
ManualFiles == {<<"/", "c", "/", "B", "a", "t", "m", "a", "n", " ", "0", "0", "1", ".", "c", "b", "z">>, <<"/", "c", "/", "S", "p", "i", "d", "e", "r", "-", "M", "a", "n", " ", "0", "0", "2", ".", "c", "b", "z">>, <<"/", "c", "/", "S", "a", "g", "a", " ", "0", "3", ".", "c", "b", "z">>}

\* the lists of at most n different files
RECURSIVE ManualSeqs(_)
ManualSeqs(n) ==
    IF n = 0 THEN {<<>>}
    ELSE ManualSeqs(n - 1) \cup
         {Append(s, f) : s \in {t \in ManualSeqs(n - 1) : Len(t) = n - 1},
                         f \in ManualFiles}

ManualOptions == [dryRun : BOOLEAN, includeUnmatched : BOOLEAN]

\* unmatchedFolder = "_Unmatched"
unmatchedFolder == <<"_", "U", "n", "m", "a", "t", "c", "h", "e", "d">>

\* what the output directory can hold before a manual run
ManualOutputs ==
    { {},
      {DirEntry(outputDir), DirEntry(<<"/", "o", "u", "t", "/", "D", "C">>), Old(<<"/", "o", "u", "t", "/", "D", "C", "/", "B", "a", "t", "m", "a", "n", " ", "0", "0", "1", ".", "c", "b", "z">>)} }

InitManual ==
    /\ ResolverIdle
    /\ NormalizerOff
    /\ DetectorOff
    /\ AutoOff
    /\ FlattenOff
    /\ mpc = "load"
    /\ mConfig \in ValidConfigs \cup InvalidConfigs
    /\ mFiles \in {s \in ManualSeqs(MaxManual) : Distinct(s)}
    /\ mOptions \in ManualOptions
    /\ mAssign = <<>> /\ mMoved = <<>> /\ mLog = <<>>
    /\ \E before \in ManualOutputs : disk = SourceDisk(mFiles) \cup before
    /\ ret = NoReturn

ManualOthers ==
    <<nvars, dvars, avars, fvars, mode, files, options, hasPath, i, pc, cur, metadata, results, log>>

\* await loadFilterConfig(configPath): the run goes on, or the error is raised
ManualLoad ==
    /\ mpc = "load"
    /\ LET loaded == loadFilterConfig(mConfig)
       IN  IF loaded.threw
           THEN /\ mpc' = "raised"
                /\ mLog' = Append(mLog, [ev |-> "error", error |-> loaded.error])
           ELSE /\ mpc' = "scan"
                /\ mLog' = Append(mLog, [ev |-> "loaded"])
    /\ UNCHANGED <<mConfig, mFiles, mOptions, mAssign, mMoved, disk, ret, ManualOthers>>

\* files.filter((f) => !assigned.has(f)), each with folder unmatchedFolder
Unmatched(assigned) ==
    LET unmatchedFiles == SelectSeq(mFiles, LAMBDA f : f \notin assigned)
    IN  [k \in DOMAIN unmatchedFiles |-> [file |-> unmatchedFiles[k], folder |-> unmatchedFolder]]

\* await findComicFiles(sourceDir), then the filters are applied; a dry run
\* and a directory without comic files end here
ManualScan ==
    /\ mpc = "scan"
    /\ IF mFiles = <<>>
       THEN /\ mAssign' = <<>>
            /\ mLog' = Append(mLog, [ev |-> "scan"])
            /\ mpc' = "done"
            /\ ret' = Result(0, 0, NullNum, <<>>)
       ELSE LET processed == processFilters(mFiles, mConfig.config.filters.items, <<>>)
            IN  /\ mAssign' = IF mOptions.includeUnmatched
                              THEN processed.assignments \o Unmatched(processed.assigned)
                              ELSE processed.assignments
                /\ mLog' = Append(Append(mLog, [ev |-> "scan"]), [ev |-> "assign"])
                /\ mpc' = IF mOptions.dryRun THEN "done" ELSE "move"
                /\ ret' = IF mOptions.dryRun
                          THEN Result(Len(mFiles), 0, Len(mAssign'), <<>>)
                          ELSE ret
    /\ UNCHANGED <<mConfig, mFiles, mOptions, mMoved, disk, ManualOthers>>

\* every assignment's file is moved; a move that fails is recorded and the
\* others go on
ManualMove ==
    /\ mpc = "move"
    /\ \E faults \in Faults :
          LET out == MoveLoop(mAssign, outputDir, disk, faults)
          IN  /\ disk' = out.disk
              /\ mMoved' = out.done
              /\ ret' = Result(Len(mFiles), out.moved, NullNum, out.errors)
    /\ mLog' = Append(mLog, [ev |-> "move"])
    /\ mpc' = "done"
    /\ UNCHANGED <<mConfig, mFiles, mOptions, mAssign, ManualOthers>>

NextManual == ManualLoad \/ ManualScan \/ ManualMove

SpecManual == InitManual /\ [][NextManual]_vars

(* Properties of the manual organizer *)
\* the filters have been applied
Filtered == \E e \in DOMAIN mLog : mLog[e].ev = "assign"

\* the assignments processFilters made
FilterAssignments ==
    {mAssign[k] : k \in {q \in DOMAIN mAssign : mAssign[q].folder # unmatchedFolder}}

\* the filter matches the file's name
Matches(filter, file) == RegExpTest(filter.pattern, getFilename(file))

\* the index of the first filter of a level that matches the file; 0 for none
FirstMatching(filters, file) ==
    IF \E k \in DOMAIN filters : Matches(filters[k], file)
    THEN CHOOSE k \in DOMAIN filters :
             Matches(filters[k], file) /\ \A q \in 1..(k - 1) : ~Matches(filters[q], file)
    ELSE 0

\* the folder of the first matching filter at each level, from the level
\* filters down; Undefined when no filter of the level matches
RECURSIVE FirstMatchFolder(_, _, _)
FirstMatchFolder(file, filters, parentPath) ==
    LET k == FirstMatching(filters, file)
    IN  IF k = 0 THEN Undefined
        ELSE LET currentPath == CurrentPath(parentPath, filters[k])
             IN  IF HasSubFilters(filters[k])
                    /\ FirstMatching(filters[k].filters.items, file) # 0
                 THEN FirstMatchFolder(file, filters[k].filters.items, currentPath)
                 ELSE currentPath

\* C18: a file can only match one filter: processFilters makes at most one
\* assignment per file, the one of the first matching filter in declaration
\* order at each level, also when the file matches an earlier filter and a
\* later filter that has sub-filters.
C18_OneAssignmentPerFile ==
    Filtered =>
        /\ \A f \in AssignedFiles(mAssign) :
              Cardinality({k \in DOMAIN mAssign : mAssign[k].file = f}) <= 1
        /\ \A a \in FilterAssignments :
              a.folder = FirstMatchFolder(a.file, mConfig.config.filters.items, <<>>)

\* the filters a file reaches: those of the top level, and the sub-filters
\* of every filter it reaches and matches; each with its path and with the
\* filters declared before it at its level
RECURSIVE Reached(_, _, _)
Reached(file, filters, parentPath) ==
    UNION {{[filter |-> filters[k],
             path |-> CurrentPath(parentPath, filters[k]),
             earlier |-> {filters[q] : q \in 1..(k - 1)}]}
           \cup (IF Matches(filters[k], file) /\ HasSubFilters(filters[k])
                 THEN Reached(file, filters[k].filters.items,
                              CurrentPath(parentPath, filters[k]))
                 ELSE {})
           : k \in DOMAIN filters}

\* the parents the file reaches and matches
MatchedParents(file) ==
    {n \in Reached(file, mConfig.config.filters.items, <<>>) :
        Matches(n.filter, file) /\ HasSubFilters(n.filter)}

\* the file is assigned to the folder, or below it
AssignedTo(file, folder) == \E a \in FilterAssignments : a.file = file /\ a.folder = folder
AssignedBelow(file, folder) ==
    \E a \in FilterAssignments :
        /\ a.file = file
        /\ \/ a.folder = folder
           \/ /\ Len(a.folder) > Len(folder)
              /\ SubSeq(a.folder, 1, Len(folder) + 1) = folder \o <<"/">>

\* sub-filters see only what their parent matched: every assignment's folder
\* is the path of a filter the file reaches and matches
OnlyParentMatched ==
    \A a \in FilterAssignments :
        \E n \in Reached(a.file, mConfig.config.filters.items, <<>>) :
            n.path = a.folder /\ Matches(n.filter, a.file)

\* a file matching a parent and a sub-filter is assigned to parent/sub, for
\* the first sub-filter it matches
SubFolderWhenSubMatches ==
    \A k \in DOMAIN mFiles :
        \A n \in MatchedParents(mFiles[k]) :
            LET subs == n.filter.filters.items
                s == FirstMatching(subs, mFiles[k])
            IN  s # 0 => AssignedBelow(mFiles[k], Folder(n.path, subs[s].name))

RECURSIVE AllFilters(_)
AllFilters(filters) ==
    UNION {{filters[k]} \cup (IF filters[k].filters.kind = "array"
                              THEN AllFilters(filters[k].filters.items)
                              ELSE {})
           : k \in DOMAIN filters}

\* the configuration errors: no file, no filters array, a filter without
\* name or pattern, a pattern that is no regular expression
NoNameOrPattern(filter) == ~Truthy(filter.name) \/ ~Truthy(filter.pattern)
InvalidRegex(filter) == Truthy(filter.pattern) /\ RegExpThrows(filter.pattern)
ConfigurationError ==
    \/ ~mConfig.exists
    \/ mConfig.config.filters.kind # "array"
    \/ (\E f \in AllFilters(mConfig.config.filters.items) : NoNameOrPattern(f))
    \/ (\E f \in AllFilters(mConfig.config.filters.items) : InvalidRegex(f))

\* C20: a configuration error in manual mode is fatal to the run and is
\* raised before any file is scanned, assigned or moved.
C20_ConfigErrorsRaisedFirst ==
    ConfigurationError =>
        /\ mpc \in {"load", "raised"}
        /\ mAssign = <<>> /\ mMoved = <<>>
        /\ \A e \in DOMAIN mLog : mLog[e].ev \notin {"scan", "assign", "move"}
        /\ mpc = "raised" => (Len(mLog) = 1 /\ mLog[1].ev = "error")

\* a pattern that is no regular expression two levels down, files in the
\* source directory: the run has raised the error and done nothing else
C20_Witness ==
    /\ mpc = "raised"
    /\ mFiles # <<>>
    /\ mConfig.exists
    /\ ~(\E f \in AllFilters(mConfig.config.filters.items) : NoNameOrPattern(f))
    /\ ~(\E k \in DOMAIN mConfig.config.filters.items :
            InvalidRegex(mConfig.config.filters.items[k]))
    /\ (\E f \in AllFilters(mConfig.config.filters.items) : InvalidRegex(f))
    /\ mLog = <<[ev |-> "error", error |-> <<"regex">>]>>

(***************************************************************************)
(* The flatten organizer: runFlattenOrganizer                              *)
(***************************************************************************)
COMIC_EXTENSIONS == {<<".", "c", "b", "r">>, <<".", "c", "b", "z">>, <<".", "p", "d", "f">>, <<".", "e", "p", "u", "b">>}

\* what glob finds under a directory with nodir: the files right in it, or
\* the files anywhere below it
Globbed(tree, directory, recursive) ==
    {e.path : e \in {d \in tree : /\ d.kind = "file"
                                  /\ IF recursive
                                     THEN directory \in Lineage(dirname(d.path))
                                     ELSE dirname(d.path) = directory}}

\* findComicFiles(directory, { recursive }), as a set: glob decides the order
findComicFiles(tree, directory, recursive) ==
    {p \in Globbed(tree, directory, recursive) : toLowerCase(extname(p)) \in COMIC_EXTENSIONS}

\* the arrays that list the members of S, each once
Orderings(S) ==
    {s \in [1..Cardinality(S) -> S] : \A a, b \in DOMAIN s : a # b => s[a] # s[b]}

\* findSubdirectories(directory): every directory below it
findSubdirectories(tree, directory) ==
    {e.path : e \in {d \in tree : /\ d.kind = "dir"
                                  /\ d.path # directory
                                  /\ directory \in Lineage(d.path)}}

\* dir.split(path.sep).length
Depth(dir) == Len(SplitSlash(dir))

\* fs.readdir(dir): the entries right in it
readdir(tree, dir) == {e \in tree : e.path # dir /\ dirname(e.path) = dir}

\* removeEmptyDirectories(directories): the deepest first, each removed when
\* it is empty at its turn
RECURSIVE RemoveFrom(_, _, _)
RemoveFrom(tree, directories, removed) ==
    IF directories = {} THEN [disk |-> tree, removed |-> removed]
    ELSE LET dir == CHOOSE d \in directories : \A o \in directories : Depth(o) <= Depth(d)
         IN  IF pathExists(tree, dir) /\ readdir(tree, dir) = {}
             THEN RemoveFrom(tree \ {EntryAt(tree, dir)}, directories \ {dir}, removed + 1)
             ELSE RemoveFrom(tree, directories \ {dir}, removed)

removeEmptyDirectories(tree, directories) == RemoveFrom(tree, directories, 0)

\* a comic file of the tree, its content named after where it was first
Comic(path) == FileEntry(path, path)

\* the trees runFlattenOrganizer is run on
FlattenDisks ==
    { {DirEntry(sourceDir), Comic(<<"/", "c", "/", "a", ".", "c", "b", "z">>)},
      {DirEntry(sourceDir), DirEntry(<<"/", "c", "/", "x">>), Comic(<<"/", "c", "/", "x", "/", "a", ".", "c", "b", "z">>),
       DirEntry(<<"/", "c", "/", "y">>), Comic(<<"/", "c", "/", "y", "/", "a", ".", "c", "b", "z">>)},
      {DirEntry(sourceDir), Comic(<<"/", "c", "/", "a", ".", "c", "b", "z">>), Comic(<<"/", "c", "/", "a", "_", "1", ".", "c", "b", "z">>),
       DirEntry(<<"/", "c", "/", "x">>), Comic(<<"/", "c", "/", "x", "/", "a", ".", "c", "b", "z">>)},
      {DirEntry(sourceDir), DirEntry(<<"/", "c", "/", "x">>), Comic(<<"/", "c", "/", "x", "/", "a", ".", "c", "b", "z">>),
       Comic(<<"/", "c", "/", "x", "/", "a", "_", "1", ".", "c", "b", "z">>), DirEntry(<<"/", "c", "/", "x", "/", "y">>), Comic(<<"/", "c", "/", "x", "/", "y", "/", "a", ".", "c", "b", "z">>)},
      {DirEntry(sourceDir), FileEntry(<<"/", "c", "/", "b", ".", "C", "B", "R">>, <<"o", "l", "d">>), DirEntry(<<"/", "c", "/", "x">>),
       Comic(<<"/", "c", "/", "x", "/", "b", ".", "C", "B", "R">>), FileEntry(<<"/", "c", "/", "x", "/", "n", "o", "t", "e", "s", ".", "t", "x", "t">>, <<"n", "o", "t", "e", "s">>),
       DirEntry(<<"/", "c", "/", "z">>)},
      {DirEntry(sourceDir), DirEntry(<<"/", "c", "/", "a", ".", "b", ".", "p", "d", "f">>), DirEntry(<<"/", "c", "/", "x">>),
       Comic(<<"/", "c", "/", "x", "/", "a", ".", "b", ".", "p", "d", "f">>), Comic(<<"/", "c", "/", "x", "/", "n", "o", "e", "x", "t">>)} }

InitFlatten ==
    /\ ResolverIdle
    /\ NormalizerOff
    /\ DetectorOff
    /\ AutoOff
    /\ ManualOff
    /\ fpc = "scan"
    /\ fOptions \in [dryRun : BOOLEAN]
    /\ fAll = <<>> /\ fFiles = <<>> /\ fSubdirs = <<>> /\ fIdx = 0 /\ fDest = <<>>
    /\ fCounter = 0 /\ fMoved = 0 /\ fErrors = <<>> /\ fPlaced = <<>>
    /\ disk \in FlattenDisks
    /\ ret = NoReturn

FlattenOthers ==
    <<nvars, dvars, avars, mvars, mode, files, options, hasPath, i, pc, cur, metadata, results,
      log>>

\* what runFlattenOrganizer returns: the folders removed, or to remove
FlattenResult(processed, moved, wouldMove, folders, errors) ==
    [returned |-> TRUE, processed |-> processed, moved |-> moved, wouldMove |-> wouldMove,
     folders |-> folders, errors |-> errors]

\* the preview's result with wouldMove: allFiles.length
FlattenPreviewAll(allFiles, filesInSubdirs, subdirs) ==
    FlattenResult(Len(allFiles), 0, Len(allFiles), Len(subdirs), <<>>)
\* the preview's result: { processed: allFiles.length, moved: 0, wouldMove:
\* filesInSubdirs.length, foldersToRemove: subdirs.length, errors: [] }
FlattenPreview(allFiles, filesInSubdirs, subdirs) ==
    FlattenResult(Len(allFiles), 0, Len(filesInSubdirs), Len(subdirs), <<>>)

\* the scan, up to the preview: nothing to flatten, a dry run, or the moves
FlattenScan ==
    /\ fpc = "scan"
    /\ fAll' \in Orderings(findComicFiles(disk, sourceDir, TRUE))
    /\ fFiles' = SelectSeq(fAll', LAMBDA f : dirname(f) # sourceDir)
    /\ IF fFiles' = <<>>
       THEN /\ fSubdirs' = fSubdirs
            /\ ret' = FlattenResult(0, 0, NullNum, 0, <<>>)
            /\ fpc' = "done"
            /\ fIdx' = fIdx
       ELSE /\ fSubdirs' \in Orderings(findSubdirectories(disk, sourceDir))
            /\ IF fOptions.dryRun
               THEN /\ ret' = FlattenPreview(fAll', fFiles', fSubdirs')
                    /\ fpc' = "done"
                    /\ fIdx' = fIdx
               ELSE /\ ret' = ret
                    /\ fpc' = "pick"
                    /\ fIdx' = 1
    /\ UNCHANGED <<fOptions, fDest, fCounter, fMoved, fErrors, fPlaced, disk, FlattenOthers>>

\* the head of the loop body: destPath, and whether a free name is needed
FlattenPick ==
    /\ fpc = "pick"
    /\ LET file == fFiles[fIdx]
           destPath == pathJoin(sourceDir, getFilename(file))
       IN  /\ fDest' = destPath
           /\ IF pathExists(disk, destPath) /\ file # destPath
              THEN fCounter' = 1 /\ fpc' = "probe"
              ELSE fCounter' = fCounter /\ fpc' = "move"
    /\ UNCHANGED <<fOptions, fAll, fFiles, fSubdirs, fIdx, fMoved, fErrors, fPlaced, disk, ret,
                   FlattenOthers>>

\* the name with the counter of the next round
RenamedAhead(filename, counter) ==
    LET ext == extname(filename)
        base == basename(filename, ext)
    IN  pathJoin(sourceDir, base \o <<"_">> \o NumberToString(counter + 1) \o ext)
\* `${base}_${counter}${ext}` in the root folder
Renamed(filename, counter) ==
    LET ext == extname(filename)
        base == basename(filename, ext)
    IN  pathJoin(sourceDir, base \o <<"_">> \o NumberToString(counter) \o ext)

\* one test of while (await fs.pathExists(destPath)), and its body
FlattenProbe ==
    /\ fpc = "probe"
    /\ IF pathExists(disk, fDest)
       THEN /\ fDest' = Renamed(getFilename(fFiles[fIdx]), fCounter)
            /\ fCounter' = fCounter + 1
            /\ fpc' = "probe"
       ELSE /\ fpc' = "move"
            /\ UNCHANGED <<fDest, fCounter>>
    /\ UNCHANGED <<fOptions, fAll, fFiles, fSubdirs, fIdx, fMoved, fErrors, fPlaced, disk, ret,
                   FlattenOthers>>

\* try { await fs.move(file, destPath); moved++ } catch (error) { errors.push }
FlattenMove ==
    /\ fpc = "move"
    /\ \E fault \in BOOLEAN :
          LET file == fFiles[fIdx]
              step == fsMove(disk, file, fDest, FALSE, fault)
          IN  /\ disk' = step.disk
              /\ IF step.threw
                 THEN /\ fErrors' = Append(fErrors, [file |-> file, error |-> step.error])
                      /\ UNCHANGED <<fMoved, fPlaced>>
                 ELSE /\ fMoved' = fMoved + 1
                      /\ fPlaced' = Append(fPlaced, fDest)
                      /\ fErrors' = fErrors
    /\ fIdx' = fIdx + 1
    /\ fpc' = IF fIdx' > Len(fFiles) THEN "remove" ELSE "pick"
    /\ UNCHANGED <<fOptions, fAll, fFiles, fSubdirs, fDest, fCounter, ret, FlattenOthers>>

\* the empty folders are removed and the run returns
FlattenRemove ==
    /\ fpc = "remove"
    /\ LET out == removeEmptyDirectories(disk, {fSubdirs[k] : k \in DOMAIN fSubdirs})
       IN  /\ disk' = out.disk
           /\ ret' = FlattenResult(Len(fAll), fMoved, NullNum, out.removed, fErrors)
    /\ fpc' = "done"
    /\ UNCHANGED <<fOptions, fAll, fFiles, fSubdirs, fIdx, fDest, fCounter, fMoved, fErrors,
                   fPlaced, FlattenOthers>>

NextFlatten == FlattenScan \/ FlattenPick \/ FlattenProbe \/ FlattenMove \/ FlattenRemove

SpecFlatten == InitFlatten /\ [][NextFlatten]_vars

(***************************************************************************)
(* The three organizers, one run of any of them                            *)
(***************************************************************************)
InitOrganize == InitAuto \/ InitManual \/ InitFlatten
NextOrganize == NextAuto \/ NextManual \/ NextFlatten
SpecOrganize == InitOrganize /\ [][NextOrganize]_vars

(***************************************************************************)
(* Properties of the organizers' effects on the filesystem                 *)
(***************************************************************************)
\* the run is a preview
Preview ==
    \/ apc # "off" /\ AutoDryRun
    \/ mpc # "off" /\ mOptions.dryRun
    \/ fpc # "off" /\ fOptions.dryRun

\* the moves the loop of a real run makes: one for each assignment, and for
\* flatten one for each file of filesInSubdirs
Attempts ==
    IF apc # "off" THEN Len(aAssign) ELSE IF mpc # "off" THEN Len(mAssign) ELSE Len(fFiles)

\* the scan found files to work on
FoundFiles ==
    IF apc # "off" THEN aFiles # <<>> ELSE IF mpc # "off" THEN mFiles # <<>> ELSE fFiles # <<>>

\* C21 as stated: in preview mode the automatic, manual and flatten
\* organizers leave the filesystem unchanged, the result reports moved = 0,
\* and its wouldMove is the number of moves a real run would attempt
C21_PreviewCountsMoves ==
    [][Preview => /\ disk' = disk
                  /\ ret'.returned => ret'.moved = 0 /\ ret'.wouldMove = Attempts']_vars

\* C21: in preview mode the automatic, manual and flatten organizers leave
\* the filesystem unchanged and the result reports moved = 0; when the scan
\* found files to move, the result's wouldMove is the number of moves a real
\* run would attempt, and when it found none the result has no wouldMove
C21_PreviewCountsMovesWhenFound ==
    [][Preview => /\ disk' = disk
                  /\ ret'.returned =>
                        /\ ret'.moved = 0
                        /\ ret'.wouldMove = IF FoundFiles' THEN Attempts' ELSE NullNum]_vars

\* a flatten preview of a tree with comic files in the root and below it
\* returned
C21_Witness ==
    /\ fpc = "done" /\ fOptions.dryRun /\ ret.returned
    /\ Len(fFiles) >= 1 /\ Len(fAll) > Len(fFiles)
    /\ disk \in FlattenDisks

\* the move loop of the automatic or of the manual organizer runs in this step
MovesRun == (apc = "move" /\ apc' = "done") \/ (mpc = "move" /\ mpc' = "done")
\* its assignments, and for each whether its file was moved
MoveAssignments == IF apc # "off" THEN aAssign ELSE mAssign
MoveDone == IF apc # "off" THEN aMoved ELSE mMoved

\* where assignment k's file is to go
Destination(k) ==
    pathJoin(pathJoin(outputDir, MoveAssignments[k].folder),
             getFilename(MoveAssignments[k].file))

\* the assignments whose move failed, in order
FailedMoves == SelectSeq([k \in DOMAIN MoveDone |-> k], LAMBDA k : ~MoveDone[k])

\* the files of the disk
FilesOf(tree) == {e \in tree : e.kind = "file"}

\* C22: when a move's destination already exists the existing file is not
\* overwritten, the failure is one entry of the result's errors naming the
\* file, and the other files of the batch are still processed: every
\* assignment is attempted, a moved file is at its destination, and
\* moved + errors.length is the number of assignments
C22_ExistingDestinationKept ==
    [][MovesRun =>
        LET sources == {MoveAssignments[k].file : k \in DOMAIN MoveAssignments}
        IN  /\ \A e \in FilesOf(disk) : e.path \notin sources => e \in disk'
            /\ DOMAIN MoveDone' = DOMAIN MoveAssignments
            /\ \A k \in DOMAIN MoveAssignments :
                  /\ pathExists(disk, Destination(k)) => ~MoveDone'[k]
                  /\ MoveDone'[k] =>
                        /\ FileEntry(Destination(k), MoveAssignments[k].file) \in disk'
                        /\ ~pathExists(disk', MoveAssignments[k].file)
            /\ Len(ret'.errors) = Len(FailedMoves')
            /\ \A j \in DOMAIN FailedMoves' :
                  /\ ret'.errors[j].file = MoveAssignments[FailedMoves'[j]].file
                  /\ pathExists(disk, Destination(FailedMoves'[j]))
                        /\ pathExists(disk, MoveAssignments[FailedMoves'[j]].file)
                        => ret'.errors[j].error = "dest already exists."
            /\ ret'.moved + Len(ret'.errors) = Len(MoveAssignments)]_vars

\* the first file's destination was taken, the second file was moved
C22_Witness ==
    /\ apc = "done" /\ ret.returned
    /\ aMoved = <<FALSE, TRUE>>
    /\ ret.moved = 1
    /\ Len(ret.errors) = 1 /\ ret.errors[1].error = "dest already exists."
    /\ Old(Destination(1)) \in disk
    /\ pathExists(disk, aAssign[1].file)

(***************************************************************************)
(* Properties of the embedded stage and of the pattern stage               *)
(***************************************************************************)
\* the cases in which a file gives no embedded metadata: a container type
\* that is not read, an archive that cannot be opened, no entry named
\* comicinfo.xml in any casing, or an entry that is empty, that the parser
\* throws on or that has no ComicInfo root
NoEmbeddedData(f) ==
    \/ toLowerCase(extname(f.path)) \notin {<<".", "c", "b", "z">>, <<".", "c", "b", "r">>}
    \/ ~f.content.readable
    \/ ~HasComicInfoEntry(f.content)
    \/ LET xml == extractComicInfo(f.content)
       IN  ~xml.text \/ ~xml.wellFormed \/ ~xml.hasRoot

\* the file getComicMetadata is working on
CurrentFile == files[i + 1]

\* C23: readComicInfo returns null, and does not throw to the resolver, for
\* a container type it does not read (.pdf and .epub), for an archive without
\* an entry named ComicInfo.xml in any casing, for a missing or unreadable
\* file and for a parse failure, and only then; the resolver then goes to the
\* next stage
C23_ReaderReturnsNull ==
    /\ pc = "raised" => cur.stage # "embedded"
    /\ cur.stage = "embedded" /\ Truthy(cur.filePath)
          => (NoEmbeddedData(CurrentFile) <=> cur.comicInfo = NullInfo)
    /\ cur.stage # "none" /\ Truthy(cur.filePath)
          => \/ /\ cur.comicInfo = NullInfo
                /\ metadata.source # "comicinfo-xml"
                /\ cur.stage = "embedded" => pc = AfterEmbedded
             \/ ~NoEmbeddedData(CurrentFile)

\* the resolver is past the embedded stage of an archive whose ComicInfo.xml
\* the parser throws on
C23_Witness ==
    /\ cur.stage = "embedded" /\ pc = AfterEmbedded
    /\ Truthy(cur.filePath)
    /\ extractComicInfo(CurrentFile.content) = Malformed
    /\ cur.comicInfo = NullInfo

\* the catalog entries whose pattern matches the raw filename
MatchingPatterns(filename) ==
    {k \in DOMAIN SERIES_PATTERNS : PatternTest(SERIES_PATTERNS[k].pattern, filename)}
FirstPattern(filename) ==
    LET matched == MatchingPatterns(filename)
    IN  SERIES_PATTERNS[CHOOSE k \in matched : \A o \in matched : k <= o]

\* the pattern stage has just made the record
PatternStageDone == cur.stage = "pattern" /\ pc = "return"

\* C24: the pattern stage decides in this order: a series pattern matched
\* (the first catalog entry whose pattern matches the raw filename) gives
\* pattern-match, high and {publisher}/{series}, the publisher being the
\* normalized pattern publisher or else the normalized detected publisher;
\* else a detected publisher gives publisher-detection, medium and
\* {publisher}/{cleanedName}; else filename-analysis, low and
\* Unsorted/{cleanedName}
C24_PatternStageOrder ==
    PatternStageDone =>
        LET filename == metadata.originalFilename
            detected == detectPublisher(filename)
            matched == MatchingPatterns(filename)
        IN  IF matched # {}
            THEN LET entry == FirstPattern(filename)
                     publisher == OrElse(normalizePublisher(entry.publisher),
                                         normalizePublisher(detected))
                 IN  /\ metadata.source = "pattern-match"
                     /\ metadata.confidence = "high"
                     /\ metadata.series = entry.series
                     /\ metadata.publisher = publisher
                     /\ metadata.suggestedFolder = publisher \o <<"/">> \o entry.series
            ELSE IF detected # Null
            THEN /\ metadata.source = "publisher-detection"
                 /\ metadata.confidence = "medium"
                 /\ metadata.publisher = normalizePublisher(detected)
                 /\ metadata.suggestedFolder
                        = normalizePublisher(detected) \o <<"/">> \o metadata.cleanedName
            ELSE /\ metadata.source = "filename-analysis"
                 /\ metadata.confidence = "low"
                 /\ metadata.suggestedFolder = Unsorted \o <<"/">> \o metadata.cleanedName

\* a filename two catalog entries match got the series of the earlier entry
C24_Witness ==
    /\ PatternStageDone
    /\ metadata.originalFilename = <<"S", "u", "p", "e", "r", "m", "a", "n", "-", "B", "a", "t", "m", "a", "n", " ", "0", "7", ".", "c", "b", "z">>
    /\ Cardinality(MatchingPatterns(metadata.originalFilename)) = 2
    /\ metadata.series = <<"B", "a", "t", "m", "a", "n">>
    /\ metadata.suggestedFolder = <<"D", "C", " ", "C", "o", "m", "i", "c", "s", "/", "B", "a", "t", "m", "a", "n">>

\* the elements of the ComicInfo root of the file being resolved
EmbeddedInfo == extractComicInfo(CurrentFile.content).info

\* C25: in a record of the embedded stage issueNumber and year are the
\* embedded Number and Year whenever the ComicInfo.xml has them, issue number
\* 0 included, and the values derived from the filename only when the
\* element is absent
C25_EmbeddedNumberAndYearWin ==
    cur.stage = "embedded" /\ pc = "return" =>
        /\ metadata.issueNumber = IF EmbeddedInfo.Number # NullNum
                                  THEN EmbeddedInfo.Number
                                  ELSE extractIssueNumber(metadata.originalFilename)
        /\ metadata.year = IF EmbeddedInfo.Year # NullNum
                           THEN EmbeddedInfo.Year
                           ELSE extractYear(metadata.originalFilename)

(***************************************************************************)
(* The series detector on names that are similar in a chain                *)
(***************************************************************************)
\* Batman is similar to The Batman, The Batman to Batman Beyond, and Batman
\* is not similar to Batman Beyond
ChainFiles ==
    {<<"/", "p", "a", "t", "h", "/", "B", "a", "t", "m", "a", "n", " ", "#", "0", "0", "1", ".", "c", "b", "z">>, <<"/", "p", "a", "t", "h", "/", "T", "h", "e", " ", "B", "a", "t", "m", "a", "n", " ", "#", "0", "0", "3", ".", "c", "b", "z">>,
     <<"/", "p", "a", "t", "h", "/", "B", "a", "t", "m", "a", "n", " ", "B", "e", "y", "o", "n", "d", " ", "#", "0", "0", "1", ".", "c", "b", "z">>, <<"/", "p", "a", "t", "h", "/", "S", "a", "g", "a", " ", "#", "0", "0", "1", ".", "c", "b", "z">>}

\* the lists of at most n different members of S
RECURSIVE ListsOf(_, _)
ListsOf(S, n) ==
    IF n = 0 THEN {<<>>}
    ELSE ListsOf(S, n - 1) \cup
         {Append(s, f) : s \in {t \in ListsOf(S, n - 1) : Len(t) = n - 1}, f \in S}

InitChain ==
    /\ ResolverIdle
    /\ NormalizerOff
    /\ AutoOff
    /\ ManualOff
    /\ FlattenOff
    /\ DiskOff
    /\ dpc = "called"
    /\ dFiles \in {s \in ListsOf(ChainFiles, MaxDetect) : Distinct(s)}
    /\ dMeta \in {NotPassed} \cup {MetadataResults(w, dFiles) : w \in ResolverWorlds}
    /\ dGroups = <<>>

SpecChain == InitChain /\ [][NextDetect]_vars

\* the similarity of the candidate names of files a and b of the list is 0.5
\* or more
HalfSimilar(a, b) ==
    LET similarity == calculateSimilarity(extractSeriesName(getFilename(dFiles[a])),
                                          extractSeriesName(getFilename(dFiles[b])))
    IN  2 * similarity[1] >= similarity[2]

\* the groups as sets of files
Grouping(groups) == {{g.files[k] : k \in DOMAIN g.files} : g \in {groups[q] : q \in DOMAIN groups}}

\* C26: grouping is no transitive closure: for the files A, B, C given in
\* this order with A similar to B, B similar to C and A not similar to C,
\* detectSeriesGroups returns the one group {A, B} and C is in no group;
\* another order of the same files gives another grouping
C26_NotTransitive ==
    dpc = "detected" /\ Len(dFiles) = 3
        /\ HalfSimilar(1, 2) /\ HalfSimilar(2, 3) /\ ~HalfSimilar(1, 3)
    => /\ Len(dGroups) = 1
       /\ dGroups[1].files = <<dFiles[1], dFiles[2]>>
       /\ \E other \in Orderings({dFiles[k] : k \in DOMAIN dFiles}) :
             Grouping(detectSeriesGroups(other)) # Grouping(dGroups)

\* Batman, The Batman, Batman Beyond in this order: Batman and The Batman
\* are grouped and Batman Beyond is left out
C26_Witness ==
    /\ dpc = "detected"
    /\ dFiles = <<<<"/", "p", "a", "t", "h", "/", "B", "a", "t", "m", "a", "n", " ", "#", "0", "0", "1", ".", "c", "b", "z">>, <<"/", "p", "a", "t", "h", "/", "T", "h", "e", " ", "B", "a", "t", "m", "a", "n", " ", "#", "0", "0", "3", ".", "c", "b", "z">>,
                 <<"/", "p", "a", "t", "h", "/", "B", "a", "t", "m", "a", "n", " ", "B", "e", "y", "o", "n", "d", " ", "#", "0", "0", "1", ".", "c", "b", "z">>>>
    /\ HalfSimilar(1, 2) /\ HalfSimilar(2, 3) /\ ~HalfSimilar(1, 3)
    /\ Len(dGroups) = 1 /\ dGroups[1].fileCount = 2

(***************************************************************************)
(* Properties of the folder of a file about which nothing is known         *)
(***************************************************************************)
\* no stage and no detector found a series or a publisher for file k
NothingInferred(k) ==
    /\ aMeta[k].source = "filename-analysis"
    /\ ~Truthy(aAssign[k].detectedSeries)

\* where file k is when its folder is the given one
PlacedIn(k, folder) ==
    FileEntry(pathJoin(outputDir, folder \o <<"/">> \o getFilename(aFiles[k].path)),
              aFiles[k].path) \in disk

\* the run moved file k
MovedByRun(k) == apc = "done" /\ ~AutoDryRun /\ aMoved[k]

\* C27 as stated: a file for which no series and no publisher could be
\* inferred gets the bare cleaned name as folder, without publisher segment,
\* and is moved to <output-root>/<cleaned name>/<original filename>
C27_BareCleanedNameFolder ==
    Assigned =>
        \A k \in DOMAIN aAssign :
            NothingInferred(k) =>
                /\ aAssign[k].folder = aMeta[k].cleanedName
                /\ MovedByRun(k) => PlacedIn(k, aMeta[k].cleanedName)

\* the folder the automatic organizer gives a single file about which
\* nothing is known
UnknownFolder(k) ==
    IF aHandling = "oneshots" THEN <<"o", "n", "e", "s", "h", "o", "t", "s">>
    ELSE <<"U", "n", "s", "o", "r", "t", "e", "d", "/">> \o aMeta[k].cleanedName

\* C27: a file for which no series and no publisher could be inferred gets
\* the folder Unsorted/<cleaned name>, or oneshots when the user sends
\* single files there, and is moved to <output-root>/<that folder>/<original
\* filename>
C27_UnsortedCleanedNameFolder ==
    Assigned =>
        \A k \in DOMAIN aAssign :
            NothingInferred(k) =>
                /\ aMeta[k].suggestedFolder = <<"U", "n", "s", "o", "r", "t", "e", "d", "/">> \o aMeta[k].cleanedName
                /\ aAssign[k].folder = UnknownFolder(k)
                /\ MovedByRun(k) => PlacedIn(k, UnknownFolder(k))

\* Zot 7.cbz, about which nothing is known, was moved to Unsorted/Zot 7
C27_Witness ==
    /\ Assigned /\ NothingInferred(1) /\ MovedByRun(1)
    /\ aMeta[1].cleanedName = <<"Z", "o", "t", " ", "7">>
    /\ FileEntry(<<"/", "o", "u", "t", "/", "U", "n", "s", "o", "r", "t", "e", "d", "/", "Z", "o", "t", " ", "7", "/", "Z", "o", "t", " ", "7", ".", "c", "b", "z">>, <<"/", "c", "/", "Z", "o", "t", " ", "7", ".", "c", "b", "z">>) \in disk

(***************************************************************************)
(* Properties of the membership of the detector's groups                   *)
(***************************************************************************)
\* position a of the list seeds a group's search (Seeds), position a takes
\* the later position b (Takes): the rule of the claim, told by positions
RECURSIVE Seeds(_), Takes(_, _)
Seeds(a) == \A e \in 1..(a - 1) : ~Takes(e, a)
Takes(a, b) ==
    /\ a < b
    /\ Seeds(a)
    /\ \A e \in 1..(a - 1) : ~Takes(e, b)
    /\ HalfSimilar(a, b)

\* a returned group begins with file a and holds file b after it
GroupedUnder(a, b) ==
    \E q \in DOMAIN dGroups :
        /\ dGroups[q].files[1] = dFiles[a]
        /\ \E k \in 2..Len(dGroups[q].files) : dGroups[q].files[k] = dFiles[b]

\* the candidate names of files a and b are Batman and Batman Beyond
BatmanAndBeyond(a, b) ==
    /\ extractSeriesName(getFilename(dFiles[a])) = <<"B", "a", "t", "m", "a", "n">>
    /\ extractSeriesName(getFilename(dFiles[b])) = <<"B", "a", "t", "m", "a", "n", " ", "B", "e", "y", "o", "n", "d">>

\* C28: detectSeriesGroups places a later file j in the group seeded by
\* file i exactly when j was not taken by an earlier group and the
\* similarity of the two candidate names is 0.5 or more; no other member is
\* consulted, and Batman and Batman Beyond are never grouped as seed and
\* taken file
C28_GroupedBySeedOnly ==
    dpc = "detected" =>
        /\ \A a, b \in DOMAIN dFiles :
              a < b => (GroupedUnder(a, b) <=> Takes(a, b))
        /\ \A a, b \in DOMAIN dFiles :
              BatmanAndBeyond(a, b) => ~GroupedUnder(a, b) /\ ~GroupedUnder(b, a)

\* Batman Beyond, Batman, The Batman: the first takes the third, its
\* similarity to the second is below 0.5, and the second, similar to the
\* third, stays alone
C28_Witness ==
    /\ dpc = "detected"
    /\ dFiles = <<<<"/", "p", "a", "t", "h", "/", "B", "a", "t", "m", "a", "n", " ", "B", "e", "y", "o", "n", "d", " ", "#", "0", "0", "1", ".", "c", "b", "z">>, <<"/", "p", "a", "t", "h", "/", "B", "a", "t", "m", "a", "n", " ", "#", "0", "0", "1", ".", "c", "b", "z">>,
                 <<"/", "p", "a", "t", "h", "/", "T", "h", "e", " ", "B", "a", "t", "m", "a", "n", " ", "#", "0", "0", "3", ".", "c", "b", "z">>>>
    /\ BatmanAndBeyond(2, 1) /\ ~HalfSimilar(1, 2)
    /\ HalfSimilar(2, 3) /\ ~GroupedUnder(2, 3)
    /\ GroupedUnder(1, 3) /\ Len(dGroups) = 1

\* the groups that have the file at position k
GroupsHaving(k) == {q \in DOMAIN dGroups : dFiles[k] \in Members(dGroups[q])}

\* C29: the groups returned by detectSeriesGroups are pairwise disjoint and
\* hold input files only, each at most once, so the map built by
\* createSeriesLookupMap gives a grouped file the name of its one group and
\* has no entry for a file of no group
C29_GroupsDisjoint ==
    dpc = "detected" =>
        LET map == createSeriesLookupMap(dGroups)
        IN  /\ \A q, r \in DOMAIN dGroups :
                  q # r => Members(dGroups[q]) \cap Members(dGroups[r]) = {}
            /\ \A q \in DOMAIN dGroups :
                  /\ Members(dGroups[q]) \subseteq {dFiles[k] : k \in DOMAIN dFiles}
                  /\ Cardinality(Members(dGroups[q])) = Len(dGroups[q].files)
            /\ \A k \in DOMAIN dFiles :
                  /\ Cardinality(GroupsHaving(k)) <= 1
                  /\ GroupsHaving(k) = {} <=> dFiles[k] \notin DOMAIN map
                  /\ \A q \in GroupsHaving(k) : map[dFiles[k]] = dGroups[q].seriesName
            /\ DOMAIN map \subseteq {dFiles[k] : k \in DOMAIN dFiles}

\* Batman Beyond, Batman, The Batman: one group of the first and the third,
\* mapped to its name, and Batman, similar to the third, unmapped
C29_Witness ==
    /\ dpc = "detected"
    /\ dFiles = <<<<"/", "p", "a", "t", "h", "/", "B", "a", "t", "m", "a", "n", " ", "B", "e", "y", "o", "n", "d", " ", "#", "0", "0", "1", ".", "c", "b", "z">>, <<"/", "p", "a", "t", "h", "/", "B", "a", "t", "m", "a", "n", " ", "#", "0", "0", "1", ".", "c", "b", "z">>,
                 <<"/", "p", "a", "t", "h", "/", "T", "h", "e", " ", "B", "a", "t", "m", "a", "n", " ", "#", "0", "0", "3", ".", "c", "b", "z">>>>
    /\ GroupsHaving(1) = {1} /\ GroupsHaving(3) = {1} /\ GroupsHaving(2) = {}
    /\ createSeriesLookupMap(dGroups)[dFiles[3]] = dGroups[1].seriesName
    /\ DOMAIN createSeriesLookupMap(dGroups) = {dFiles[1], dFiles[3]}

(***************************************************************************)
(* Properties of the moves of the flatten organizer                        *)
(***************************************************************************)
\* the files directly in the root folder
RootFiles(tree) == {e \in tree : e.kind = "file" /\ dirname(e.path) = sourceDir}

\* the n-th name tried for a file: its own name, then base_1.ext, base_2.ext
Candidate(filename, n) ==
    IF n = 0 THEN sourceDir \o <<"/">> \o filename
    ELSE LET ext == extname(filename)
         IN  sourceDir \o <<"/">> \o basename(filename, ext) \o <<"_">>
                 \o NumberToString(n) \o ext

\* the first of these names that nothing in the tree has
FirstFree(tree, filename) ==
    Candidate(filename,
              CHOOSE n \in 0..Cardinality(tree) :
                  /\ ~pathExists(tree, Candidate(filename, n))
                  /\ \A m \in 0..(n - 1) : pathExists(tree, Candidate(filename, m)))

\* this step is a move of the loop, and it threw or not
FlattenMoveStep == fpc = "move" /\ fIdx' = fIdx + 1
MoveThrew == FlattenMoveStep /\ fMoved' = fMoved

\* C30: runFlattenOrganizer never overwrites a file of the root folder; a
\* file whose name is taken there is moved to the first free name base_N.ext
\* for N = 1, 2, ...; the search for that name ends; the files moved in one
\* run end at different paths; and a move that fails is recorded in errors
\* and the loop goes on with the next file
C30_FlattenKeepsRootFiles ==
    [][ /\ \A e \in RootFiles(disk) :
              e \in disk' /\ \A d \in disk' : d.path = e.path => d = e
        /\ (FlattenMoveStep /\ ~MoveThrew) =>
              /\ fDest = FirstFree(disk, getFilename(fFiles[fIdx]))
              /\ ~pathExists(disk, fDest)
              /\ FileEntry(fDest, fFiles[fIdx]) \in disk'
              /\ ~pathExists(disk', fFiles[fIdx])
              /\ fPlaced' = Append(fPlaced, fDest)
        /\ fpc = "probe" =>
              /\ fCounter <= Cardinality(disk) + 1
              /\ \A m \in 0..(fCounter - 2) :
                    pathExists(disk, Candidate(getFilename(fFiles[fIdx]), m))
              /\ fpc' = "probe" => fCounter' = fCounter + 1
              /\ fpc' \in {"probe", "move"}
        /\ \A a, b \in DOMAIN fPlaced' :
              /\ a # b => fPlaced'[a] # fPlaced'[b]
              /\ pathExists(disk', fPlaced'[a])
        /\ fMoved' = Len(fPlaced')
        /\ MoveThrew =>
              /\ Len(fErrors') = Len(fErrors) + 1
              /\ fErrors'[Len(fErrors')].file = fFiles[fIdx]
              /\ RootFiles(disk') = RootFiles(disk)
              /\ pathExists(disk', fFiles[fIdx])
              /\ fIdx < Len(fFiles) => fpc' = "pick"
        /\ fpc' = "done" /\ ~fOptions.dryRun /\ fFiles' # <<>> =>
              /\ fMoved' + Len(fErrors') = Len(fFiles')
              /\ ret'.moved = fMoved' /\ ret'.errors = fErrors'
      ]_vars

\* a_1.cbz of the subfolder could not be moved; after it a.cbz went to the
\* root and the a.cbz found deeper went to the free name a_1.cbz
C30_Witness ==
    /\ fpc = "done"
    /\ fFiles = <<<<"/", "c", "/", "x", "/", "a", "_", "1", ".", "c", "b", "z">>, <<"/", "c", "/", "x", "/", "a", ".", "c", "b", "z">>, <<"/", "c", "/", "x", "/", "y", "/", "a", ".", "c", "b", "z">>>>
    /\ Len(fErrors) = 1 /\ fErrors[1].file = <<"/", "c", "/", "x", "/", "a", "_", "1", ".", "c", "b", "z">>
    /\ fPlaced = <<<<"/", "c", "/", "a", ".", "c", "b", "z">>, <<"/", "c", "/", "a", "_", "1", ".", "c", "b", "z">>>>
    /\ FileEntry(<<"/", "c", "/", "a", "_", "1", ".", "c", "b", "z">>, <<"/", "c", "/", "x", "/", "y", "/", "a", ".", "c", "b", "z">>) \in disk
    /\ Comic(<<"/", "c", "/", "x", "/", "a", "_", "1", ".", "c", "b", "z">>) \in disk
    /\ ret.moved = 2

====
